---- MODULE Spec2Model ----
(***************************************************************************)
(* A model of valutetrade_hub: the rate resolver (RateUseCase), the wallet *)
(* and portfolio classes, the JSON storages and the buy/sell use cases     *)
(* (PortfolioUseCase), the valuation and the rate-fetch job                *)
(* (parser_service).                                                       *)
(*                                                                         *)
(* Python floats are modelled as exact rationals <<n, d>> in lowest terms  *)
(* with d > 0; float('nan') is the pair <<0, 0>>, float('inf') <<1, 0>>    *)
(* and float('-inf') <<-1, 0>>.  Rounding and overflow are therefore not   *)
(* modelled.  Files are modelled by their decoded JSON content.            *)
(***************************************************************************)
EXTENDS Integers, Sequences, FiniteSets, TLC

VARIABLES
    portfoliosFile, \* data/portfolios.json: user id -> (currency code -> balance)
    ratesFile,      \* data/rates.json: <<from, to>> -> rate for its top-level
                    \* pair entries, <<"pairs", from, to>> -> rate for the
                    \* entries of its "pairs" member
    last,           \* the latest use-case call: its inputs, outcome and effects;
                    \* under SpecRace the call of each of the two processes
    usersFile,      \* data/users.json: username -> user id
    sched,          \* a Scheduler, the thread that runs run_scheduler and the
                    \* thread that stops it
    session,        \* a CLIInterface: the user its commands act for
    disk            \* the files of StorageManager as they are written, entry
                    \* by entry, and the save that is under way

vars == <<portfoliosFile, ratesFile, last, usersFile, sched, session, disk>>

\* the state that buy, sell, the resolver, the valuation and the fetch job
\* neither read nor write
others == <<usersFile, sched, session, disk>>

---------------------------------------------------------------------------
(* Bounds of the model.                                                    *)

\* amounts passed to buy/sell range over -1 .. MaxAmount (and NaN)
MaxAmount == 2
\* balances found in data/portfolios.json range over 0 .. MaxBalance
MaxBalance == 2
\* get-rate calls are explored while the rates file holds fewer entries
MaxCached == 3
\* records the history file holds
MaxHistory == 2
\* scheduled updates one scheduler thread runs
MaxRuns == 2

---------------------------------------------------------------------------
(* float arithmetic and comparison, as exact rationals                     *)

RECURSIVE GCD(_, _)
GCD(a, b) == IF b = 0 THEN a ELSE GCD(b, a % b)

Abs(n) == IF n < 0 THEN -n ELSE n

LCM(a, b) == (a \div GCD(a, b)) * b

Norm(n, d) == LET g == GCD(Abs(n), d) IN <<n \div g, d \div g>>

Num(n) == <<n, 1>>

Zero == Num(0)

One == Num(1)

NaN == <<0, 0>>

PosInf == <<1, 0>>

NegInf == <<-1, 0>>

IsNaN(x) == x = NaN

\* abs(x) == float('inf')
IsInf(x) == x = PosInf \/ x = NegInf

IsFinite(x) == x[2] # 0

\* x + y
Add(x, y) ==
    IF IsNaN(x) \/ IsNaN(y) THEN NaN
    ELSE IF IsInf(x) THEN (IF IsInf(y) /\ y # x THEN NaN ELSE x)
    ELSE IF IsInf(y) THEN y
    ELSE LET m == LCM(x[2], y[2])
         IN  Norm(x[1] * (m \div x[2]) + y[1] * (m \div y[2]), m)

Neg(x) == <<-x[1], x[2]>>

\* x - y
Sub(x, y) == Add(x, Neg(y))

\* x * y
Mul(x, y) ==
    IF IsNaN(x) \/ IsNaN(y) THEN NaN
    ELSE IF IsInf(x) \/ IsInf(y)
    THEN (IF x[1] = 0 \/ y[1] = 0 THEN NaN
          ELSE IF (x[1] < 0) = (y[1] < 0) THEN PosInf ELSE NegInf)
    ELSE LET g1 == GCD(Abs(x[1]), y[2])
             g2 == GCD(Abs(y[1]), x[2])
         IN  Norm((x[1] \div g1) * (y[1] \div g2), (x[2] \div g2) * (y[2] \div g1))

\* the quotient computed as a product
Div_as_product(x, y) == Mul(x, y)

\* x / y, for y > 0 (the only division the code performs is guarded by > 0)
Div(x, y) == Mul(x, <<y[2], y[1]>>)

\* x < y: False when either side is NaN
Lt(x, y) ==
    /\ ~IsNaN(x) /\ ~IsNaN(y) /\ x # y
    /\ IF IsInf(x) \/ IsInf(y) THEN x = NegInf \/ y = PosInf
       ELSE Sub(x, y)[1] < 0

\* x <= y: False when either side is NaN
Le(x, y) == ~IsNaN(x) /\ ~IsNaN(y) /\ (x = y \/ Lt(x, y))

\* x > y
Gt(x, y) == Lt(y, x)

---------------------------------------------------------------------------
(* core/currencies.py                                                      *)

CURRENCY_REGISTRY == {"USD", "EUR", "BTC", "ETH"}

\* str.upper() on the codes the model uses
upper(code) ==
    CASE code = "usd" -> "USD"
      [] code = "eur" -> "EUR"
      [] code = "btc" -> "BTC"
      [] code = "eth" -> "ETH"
      [] OTHER -> code

is_valid_currency(code) == upper(code) \in CURRENCY_REGISTRY

---------------------------------------------------------------------------
(* core/models.py: Wallet                                                  *)

\* the setter without its checks
balance_setter_unchecked(balance, amount) ==
    [exc |-> "none", msg |-> "", balance |-> amount]

\* Wallet.balance setter: rejects a negative, infinite or NaN value and
\* leaves _balance as it was.
\* msg names the raise statement the ValueError comes from.
balance_setter(balance, amount) ==
    IF Lt(amount, Zero)
    THEN [exc |-> "ValueError", msg |-> "negative balance", balance |-> balance]
    ELSE IF IsInf(amount) \/ IsNaN(amount)
    THEN [exc |-> "ValueError", msg |-> "invalid balance", balance |-> balance]
    ELSE [exc |-> "none", msg |-> "", balance |-> amount]

\* deposit without its `amount <= 0` check
deposit_any_amount(balance, amount) ==
    balance_setter(balance, Add(balance, amount))

\* Wallet.deposit
deposit(balance, amount) ==
    IF Le(amount, Zero)
    THEN [exc |-> "ValueError", msg |-> "invalid amount", balance |-> balance]
    ELSE balance_setter(balance, Add(balance, amount))

\* withdraw with its funds check written as `amount >= self._balance`
withdraw_needs_more(balance, amount) ==
    IF Le(amount, Zero)
    THEN [exc |-> "ValueError", msg |-> "invalid amount", balance |-> balance]
    ELSE IF Le(balance, amount)
    THEN [exc |-> "ValueError", msg |-> "insufficient funds", balance |-> balance]
    ELSE balance_setter(balance, Sub(balance, amount))

\* Wallet.withdraw
withdraw(balance, amount) ==
    IF Le(amount, Zero)
    THEN [exc |-> "ValueError", msg |-> "invalid amount", balance |-> balance]
    ELSE IF Lt(balance, amount)
    THEN [exc |-> "ValueError", msg |-> "insufficient funds", balance |-> balance]
    ELSE balance_setter(balance, Sub(balance, amount))

---------------------------------------------------------------------------
(* core/models.py: Portfolio.  A portfolio's _wallets dict is a function   *)
(* from the codes it holds to the wallets' balances.                       *)

\* the names class Portfolio defines (attributes, properties, methods)
PortfolioAttrs ==
    {"exchange_rates", "_user_id", "_wallets", "user", "wallets",
     "add_currency", "get_wallet", "get_total_value"}

\* an empty _wallets dict
NoWallets == [c \in {} |-> Zero]

\* add_currency that installs a fresh Wallet whether or not one exists
add_currency_resets(wallets, currency_code) ==
    (currency_code :> Zero) @@ wallets

\* Portfolio.add_currency
add_currency(wallets, currency_code) ==
    IF currency_code \in DOMAIN wallets THEN wallets
    ELSE wallets @@ (currency_code :> Zero)

\* a constructor that adds the USD wallet only
NewPortfolio_usd_only == add_currency(NoWallets, "USD")

\* Portfolio.__init__
NewPortfolio ==
    add_currency(add_currency(add_currency(NoWallets, "USD"), "BTC"), "EUR")

\* Portfolio.get_wallet: self._wallets.get(currency_code); None is
\* found = FALSE.  wallets is the _wallets dict after the call.
get_wallet(wallets, currency_code) ==
    [found   |-> currency_code \in DOMAIN wallets,
     balance |-> IF currency_code \in DOMAIN wallets
                 THEN wallets[currency_code] ELSE Zero,
     wallets |-> wallets]

---------------------------------------------------------------------------
(* core/usecases.py: PortfolioStorage                                      *)

\* data.get(str(user_id), {}).get('wallets', {})
StoredWallets(file, user_id) ==
    IF user_id \in DOMAIN file THEN file[user_id] ELSE NoWallets

\* PortfolioStorage.load_portfolio: a default portfolio, then one wallet per
\* stored code with its balance assigned through the balance setter; the
\* setter's ValueError is not caught and leaves load_portfolio.
load_portfolio(file, user_id) ==
    LET stored == StoredWallets(file, user_id)
        codes  == DOMAIN NewPortfolio \cup DOMAIN stored
        bad    == \E c \in DOMAIN stored :
                     balance_setter(Zero, stored[c]).exc # "none"
    IN  [exc     |-> IF bad THEN "ValueError" ELSE "none",
         wallets |-> [c \in codes |->
                        IF c \in DOMAIN stored
                        THEN balance_setter(Zero, stored[c]).balance
                        ELSE Zero]]

\* PortfolioStorage.save_portfolio: line 110 reads portfolio.user_id and
\* calls portfolio.get_portfolio_info().  class Portfolio defines neither
\* (its property is named user), so the line raises AttributeError inside
\* the try block, `except Exception` prints it and the file is not opened
\* for writing.
save_portfolio(file, user_id, wallets) ==
    IF {"user_id", "get_portfolio_info"} \subseteq PortfolioAttrs
    THEN (user_id :> wallets) @@ file
    ELSE file

---------------------------------------------------------------------------
(* core/usecases.py: RateStorage                                           *)

\* f"{from_currency}_{to_currency}"
pair_key(from_currency, to_currency) == <<from_currency, to_currency>>

\* the pair entries get_rate looks up in the rates file: none when
\* from == to, where it returns 1.0 before opening the file
FileReads(from_currency, to_currency) ==
    IF from_currency = to_currency THEN {}
    ELSE {pair_key(from_currency, to_currency)}

\* get_rate that finds no pair entry in the file
get_rate_misses(rates, from_currency, to_currency) ==
    IF from_currency = to_currency THEN [found |-> TRUE, rate |-> One]
    ELSE [found |-> FALSE, rate |-> Zero]

\* RateStorage.get_rate: None is found = FALSE
get_rate(rates, from_currency, to_currency) ==
    IF from_currency = to_currency THEN [found |-> TRUE, rate |-> One]
    ELSE IF pair_key(from_currency, to_currency) \in DOMAIN rates
    THEN [found |-> TRUE, rate |-> rates[pair_key(from_currency, to_currency)]]
    ELSE [found |-> FALSE, rate |-> Zero]

\* update_rate that also stores the reciprocal under (to, from)
update_rate_both_ways(rates, from_currency, to_currency, rate) ==
    (pair_key(from_currency, to_currency) :> rate)
        @@ (pair_key(to_currency, from_currency) :> <<rate[2], rate[1]>>)
        @@ rates

\* update_rate that stores nothing
update_rate_skips(rates, from_currency, to_currency, rate) == rates

\* RateStorage.update_rate
update_rate(rates, from_currency, to_currency, rate) ==
    (pair_key(from_currency, to_currency) :> rate) @@ rates

---------------------------------------------------------------------------
(* core/usecases.py: RateUseCase                                           *)

\* a static table with every constant 1.0
fixed_rates_flat(code) == One

\* fixed_rates.get(code, 1.0)
fixed_rates(code) ==
    CASE code = "USD" -> One
      [] code = "EUR" -> Norm(118, 100)
      [] code = "BTC" -> Norm(25, 1000000)
      [] code = "ETH" -> Norm(3, 10000)
      [] OTHER -> One

\* calculate_rate without its same-currency shortcut
same_currency_never(from_currency, to_currency) == FALSE

\* `if from_currency == to_currency` of calculate_rate, after upper()
same_currency(from_currency, to_currency) == from_currency = to_currency

\* RateUseCase.calculate_rate.  Returns (ok, rate), the rates file after
\* the call, and which pair entries the call read from and wrote to it.
calculate_rate(rates, from_currency, to_currency) ==
    IF from_currency = "" \/ to_currency = ""
    THEN [ok |-> FALSE, rate |-> Zero, rates |-> rates, reads |-> {}, writes |-> {}]
    ELSE
    LET f == upper(from_currency)
        t == upper(to_currency)
    IN
    IF same_currency(f, t)
    THEN [ok |-> TRUE, rate |-> One, rates |-> rates, reads |-> {}, writes |-> {}]
    ELSE
    LET direct == get_rate(rates, f, t)
        fleg   == get_rate(rates, f, "USD")
        tleg   == get_rate(rates, t, "USD")
        from_rate_to_usd == IF fleg.found THEN fleg.rate ELSE fixed_rates(f)
        to_rate_to_usd   == IF tleg.found THEN tleg.rate ELSE fixed_rates(t)
        found  == direct.found \/ Gt(to_rate_to_usd, Zero)
        rate   == IF direct.found THEN direct.rate
                  ELSE Div(from_rate_to_usd, to_rate_to_usd)
        reads  == FileReads(f, t)
                  \cup (IF direct.found THEN {}
                        ELSE FileReads(f, "USD") \cup FileReads(t, "USD"))
    IN
    IF ~found
    THEN [ok |-> FALSE, rate |-> Zero, rates |-> rates, reads |-> reads, writes |-> {}]
    ELSE [ok |-> TRUE, rate |-> rate,
          rates  |-> update_rate(rates, f, t, rate),
          reads  |-> reads,
          writes |-> {pair_key(f, t)}]

\* calculate_rate when open(self.rates_file, 'w') of update_rate (line 171)
\* raises OSError: the `with open` is in no try block of update_rate, and
\* calculate_rate calls update_rate in no try block, so the exception
\* leaves calculate_rate in place of the (True, rate) it had determined.
\* rate is that determined rate; the file is as it was.
calculate_rate_unwritable(rates, from_currency, to_currency) ==
    LET cr == calculate_rate(rates, from_currency, to_currency)
    IN  IF cr.writes = {}
        THEN [exc |-> "none", ok |-> cr.ok, rate |-> cr.rate,
              rates |-> cr.rates, reads |-> cr.reads, writes |-> {}]
        ELSE [exc |-> "OSError", ok |-> FALSE, rate |-> cr.rate,
              rates |-> rates, reads |-> cr.reads, writes |-> {}]

---------------------------------------------------------------------------
(* core/usecases.py: PortfolioUseCase.buy_currency / sell_currency         *)

\* the amount check written as `amount < 0`
amount_invalid_strict(amount) == Lt(amount, Zero)

\* `if amount <= 0` at the head of buy_currency and sell_currency
amount_invalid(amount) == Le(amount, Zero)

\* buy_currency without its USD branch
is_usd_deposit_never(currency_code) == FALSE

\* `if currency_code == "USD"` of buy_currency
is_usd_deposit(currency_code) == currency_code = "USD"

\* the cost with the rate applied in the reciprocal direction
cost_in_usd_inverse(amount, rate) == Div(amount, rate)

\* cost_in_usd = amount * rate
cost_in_usd(amount, rate) == Mul(amount, rate)

\* the revenue with the rate applied in the reciprocal direction
revenue_in_usd_inverse(amount, rate) == Div(amount, rate)

\* revenue_in_usd = amount * rate
revenue_in_usd(amount, rate) == Mul(amount, rate)

\* rate of buy/sell: calculate_rate's, or fixed_rates.get(code, 1.0) when
\* calculate_rate reports failure
rate_or_fixed(cr, currency_code) ==
    IF cr.ok THEN cr.rate ELSE fixed_rates(currency_code)

\* What a call leaves behind.  outcome is "ok" for (True, ...), the kind of
\* failure for (False, ...), or "ValueError" when the exception leaves the
\* call.  w0 is the portfolio as loaded, w1 the Portfolio object when the
\* call ends, halves the number of wallet updates applied to it, saveCalled
\* whether save_portfolio was reached.
Result(outcome, loaded, w0, w1, cr, rate, halves, saveCalled, file) ==
    [outcome |-> outcome, loaded |-> loaded, w0 |-> w0, w1 |-> w1,
     resolved |-> cr.called, rate |-> rate, reads |-> cr.reads,
     writes |-> cr.writes, rates |-> cr.rates,
     halves |-> halves, saveCalled |-> saveCalled, file |-> file]

\* no call of calculate_rate
NoRate(rates) ==
    [called |-> FALSE, ok |-> FALSE, rate |-> Zero, rates |-> rates,
     reads |-> {}, writes |-> {}]

\* a call of calculate_rate
Called(cr) ==
    [called |-> TRUE, ok |-> cr.ok, rate |-> cr.rate, rates |-> cr.rates,
     reads |-> cr.reads, writes |-> cr.writes]

\* buy_currency, lines 353-362: deposit into the USD wallet, then save
DepositApply(file, cr, user_id, w0, wallets, amount) ==
    LET d  == deposit(wallets["USD"], amount)
        w1 == [wallets EXCEPT !["USD"] = d.balance]
    IN  IF d.exc # "none"
        THEN Result(d.exc, TRUE, w0, wallets, cr, Zero, 0, FALSE, file)
        ELSE Result("ok", TRUE, w0, w1, cr, Zero, 1, TRUE,
                    save_portfolio(file, user_id, w1))

\* the paired update with save_portfolio in a `finally`: it runs although
\* the withdrawal raised
BuyApplySavesAnyway(file, cr, user_id, w0, wallets, currency_code, amount, rate) ==
    LET cost == cost_in_usd(amount, rate)
        d    == deposit(wallets[currency_code], amount)
        w1   == [wallets EXCEPT ![currency_code] = d.balance]
        w    == withdraw(w1["USD"], cost)
        w2   == [w1 EXCEPT !["USD"] = w.balance]
    IN  IF d.exc # "none"
        THEN Result(d.exc, TRUE, w0, wallets, cr, rate, 0, FALSE, file)
        ELSE IF w.exc # "none"
        THEN Result(w.exc, TRUE, w0, w1, cr, rate, 1, TRUE,
                    save_portfolio(file, user_id, w1))
        ELSE Result("ok", TRUE, w0, w2, cr, rate, 2, TRUE,
                    save_portfolio(file, user_id, w2))

\* buy_currency, lines 390-404: deposit, withdraw, save; an exception of
\* either wallet call leaves buy_currency at that line
BuyApply(file, cr, user_id, w0, wallets, currency_code, amount, rate) ==
    LET cost == cost_in_usd(amount, rate)
        d    == deposit(wallets[currency_code], amount)
        w1   == [wallets EXCEPT ![currency_code] = d.balance]
        w    == withdraw(w1["USD"], cost)
        w2   == [w1 EXCEPT !["USD"] = w.balance]
    IN  IF d.exc # "none"
        THEN Result(d.exc, TRUE, w0, wallets, cr, rate, 0, FALSE, file)
        ELSE IF w.exc # "none"
        THEN Result(w.exc, TRUE, w0, w1, cr, rate, 1, FALSE, file)
        ELSE Result("ok", TRUE, w0, w2, cr, rate, 2, TRUE,
                    save_portfolio(file, user_id, w2))

\* PortfolioUseCase.buy_currency
buy_currency(file, rates, user_id, currency_code, amount) ==
    IF amount_invalid(amount)
    THEN Result("InvalidAmount", FALSE, NoWallets, NoWallets, NoRate(rates),
                Zero, 0, FALSE, file)
    ELSE
    LET ld == load_portfolio(file, user_id) IN
    IF ld.exc # "none"
    THEN Result(ld.exc, TRUE, NoWallets, NoWallets, NoRate(rates), Zero, 0, FALSE, file)
    ELSE IF is_usd_deposit(currency_code)
    THEN DepositApply(file, NoRate(rates), user_id, ld.wallets,
                      add_currency(ld.wallets, "USD"), amount)
    ELSE
    LET wallets == add_currency(ld.wallets, currency_code) IN
    IF "USD" \notin DOMAIN wallets
    THEN Result("WalletNotFound", TRUE, ld.wallets, wallets, NoRate(rates),
                Zero, 0, FALSE, file)
    ELSE
    LET cr   == Called(calculate_rate(rates, currency_code, "USD"))
        rate == rate_or_fixed(cr, currency_code)
    IN  IF Lt(wallets["USD"], cost_in_usd(amount, rate))
        THEN Result("InsufficientFunds", TRUE, ld.wallets, wallets, cr, rate,
                    0, FALSE, file)
        ELSE BuyApply(file, cr, user_id, ld.wallets, wallets, currency_code,
                      amount, rate)

\* sell_currency, lines 441-457: withdraw, deposit, save; when the code sold
\* is USD both calls act on the one USD wallet
SellApply(file, cr, user_id, w0, wallets, currency_code, amount, rate) ==
    LET revenue == revenue_in_usd(amount, rate)
        w  == withdraw(wallets[currency_code], amount)
        w1 == [wallets EXCEPT ![currency_code] = w.balance]
        d  == deposit(w1["USD"], revenue)
        w2 == [w1 EXCEPT !["USD"] = d.balance]
    IN  IF w.exc # "none"
        THEN Result(w.exc, TRUE, w0, wallets, cr, rate, 0, FALSE, file)
        ELSE IF d.exc # "none"
        THEN Result(d.exc, TRUE, w0, w1, cr, rate, 1, FALSE, file)
        ELSE Result("ok", TRUE, w0, w2, cr, rate, 2, TRUE,
                    save_portfolio(file, user_id, w2))

\* PortfolioUseCase.sell_currency
sell_currency(file, rates, user_id, currency_code, amount) ==
    IF amount_invalid(amount)
    THEN Result("InvalidAmount", FALSE, NoWallets, NoWallets, NoRate(rates),
                Zero, 0, FALSE, file)
    ELSE
    LET ld == load_portfolio(file, user_id) IN
    IF ld.exc # "none"
    THEN Result(ld.exc, TRUE, NoWallets, NoWallets, NoRate(rates), Zero, 0, FALSE, file)
    ELSE IF currency_code \notin DOMAIN ld.wallets
    THEN Result("WalletNotFound", TRUE, ld.wallets, ld.wallets, NoRate(rates),
                Zero, 0, FALSE, file)
    ELSE
    LET wallets == add_currency(ld.wallets, "USD") IN
    IF Lt(wallets[currency_code], amount)
    THEN Result("InsufficientFunds", TRUE, ld.wallets, wallets, NoRate(rates),
                Zero, 0, FALSE, file)
    ELSE
    LET cr   == Called(calculate_rate(rates, currency_code, "USD"))
        rate == rate_or_fixed(cr, currency_code)
    IN  SellApply(file, cr, user_id, ld.wallets, wallets, currency_code,
                  amount, rate)

---------------------------------------------------------------------------
(* core/usecases.py: PortfolioUseCase.get_portfolio_info                   *)

\* the rate a wallet is valued at: calculate_rate's, or, when it reports
\* failure, the quotient of the static constants (lines 310-327)
valuation_rate(cr, currency_code, base_currency) ==
    IF cr.ok THEN cr.rate
    ELSE IF Gt(fixed_rates(base_currency), Zero)
    THEN Div(fixed_rates(currency_code), fixed_rates(base_currency))
    ELSE IF currency_code = base_currency THEN One ELSE Zero

\* the value with the rate applied in the reciprocal direction
wallet_value_inverse(balance, rate) == Div(balance, rate)

\* value = wallet.balance * rate
wallet_value(balance, rate) == Mul(balance, rate)

\* the order `for currency_code, wallet in wallets.items()` visits the
\* wallets in: the dict's insertion order, USD, BTC, EUR from
\* Portfolio.__init__ and then the stored codes that are none of these
wallet_order(wallets) ==
    SelectSeq(<<"USD", "BTC", "EUR", "ETH", "XXX">>,
              LAMBDA c : c \in DOMAIN wallets)

\* the loop of lines 308-331 over the wallets still to visit: acc holds
\* total_value, the rates file, and the pair entries read and written so far
RECURSIVE value_wallets(_, _, _, _)
value_wallets(order, wallets, base_currency, acc) ==
    IF order = <<>> THEN acc
    ELSE
    LET c    == Head(order)
        cr   == calculate_rate(acc.rates, c, base_currency)
        rate == valuation_rate(cr, c, base_currency)
    IN  value_wallets(Tail(order), wallets, base_currency,
            [total  |-> Add(acc.total, wallet_value(wallets[c], rate)),
             rates  |-> cr.rates,
             reads  |-> acc.reads \cup cr.reads,
             writes |-> acc.writes \cup cr.writes])

\* PortfolioUseCase.get_portfolio_info.  outcome is "ok" for the (True,
\* text) that reports a total, "empty" for the (True, text) of an empty
\* portfolio, "ValueError" when load_portfolio raises.  file and rates are
\* the two data files after the call.
get_portfolio_info(file, rates, user_id, base_currency) ==
    LET ld == load_portfolio(file, user_id)
        none == [total |-> Zero, rates |-> rates, reads |-> {}, writes |-> {}]
    IN  IF ld.exc # "none"
        THEN [outcome |-> ld.exc, wallets |-> NoWallets, file |-> file,
              val |-> none]
        ELSE IF DOMAIN ld.wallets = {}
        THEN [outcome |-> "empty", wallets |-> ld.wallets, file |-> file,
              val |-> none]
        ELSE [outcome |-> "ok", wallets |-> ld.wallets, file |-> file,
              val |-> value_wallets(wallet_order(ld.wallets), ld.wallets,
                                    base_currency, none)]

---------------------------------------------------------------------------
(* parser_service: ParserConfig, StorageManager, RatesUpdater.  The rates  *)
(* file is one JSON object: the resolver's entries are its top-level       *)
(* members, keyed <<from, to>>; the fetch job's entries are the members of *)
(* its "pairs" member, keyed <<"pairs", from, to>>.                        *)

\* the default paths of PortfolioStorage and RateStorage
portfolios_file == "data/portfolios.json"

rates_file == "data/rates.json"

\* ParserConfig
RATES_FILE_PATH == "data/rates.json"

\* a history path that is the portfolios file
HISTORY_FILE_PATH_is_portfolios == "data/portfolios.json"

HISTORY_FILE_PATH == "data/exchange_rates.json"

\* data["pairs"][f"{from}_{to}"]
cache_key(pair) == <<"pairs", pair[1], pair[2]>>

\* the ordered pair an entry of the rates file is for
PairOf(key) == IF Len(key) = 3 THEN <<key[2], key[3]>> ELSE key

\* StorageManager.save_cache: the file is replaced by
\* {"pairs": rates, "last_refresh": ...}
save_cache(rates, fetched) ==
    [k \in {cache_key(p) : p \in DOMAIN fetched} |-> fetched[PairOf(k)]]

\* the keys of RatesUpdater.clients, in the order of the dict
clients == <<"coingecko", "exchangerate">>

ClientNames == {clients[i] : i \in 1..Len(clients)}

\* dict.update
dict_update(all_rates, rates) ==
    [k \in DOMAIN all_rates \cup DOMAIN rates |->
        IF k \in DOMAIN rates THEN rates[k] ELSE all_rates[k]]

\* sources_to_update of run_update; "" is both None and the empty string,
\* which `if source:` treats alike
sources_to_update(source) ==
    IF source = "" THEN clients
    ELSE IF source \in ClientNames THEN <<source>>
    ELSE <<>>

\* the state of run_update before its loop over the sources
NoFetch ==
    [all_rates |-> NoWallets, updated_count |-> 0, errors |-> 0,
     calls |-> <<>>, recorded |-> {}]

\* a loop over the sources that a failing source ends
RECURSIVE fetch_all_stops(_, _, _)
fetch_all_stops(names, answers, acc) ==
    IF names = <<>> THEN acc
    ELSE LET a == answers[Head(names)]
             called == [acc EXCEPT !.calls = Append(@, Head(names))]
         IN  IF a.result = "ok"
             THEN fetch_all_stops(Tail(names), answers,
                      [called EXCEPT
                          !.all_rates = dict_update(@, a.rates),
                          !.recorded = @ \cup DOMAIN a.rates,
                          !.updated_count = @ + Cardinality(DOMAIN a.rates)])
             ELSE [called EXCEPT !.errors = @ + 1]

\* the loop of run_update over sources_to_update (lines 53-86).  The answer
\* of a source is "ok" (fetch_rates returned rates and every history record
\* was written), "ApiRequestError" (fetch_rates raised; any other exception
\* of fetch_rates takes the second except branch, which does the same) or
\* "OSError" (fetch_rates returned rates, all_rates.update(rates) ran, and
\* add_history_record raised on the first pair).
RECURSIVE fetch_all(_, _, _)
fetch_all(names, answers, acc) ==
    IF names = <<>> THEN acc
    ELSE LET a == answers[Head(names)]
             called == [acc EXCEPT !.calls = Append(@, Head(names))]
         IN  fetch_all(Tail(names), answers,
                 CASE a.result = "ok" ->
                        [called EXCEPT
                            !.all_rates = dict_update(@, a.rates),
                            !.recorded = @ \cup DOMAIN a.rates,
                            !.updated_count =
                                @ + Cardinality(DOMAIN a.rates)]
                   [] a.result = "ApiRequestError" ->
                        [called EXCEPT !.errors = @ + 1]
                   [] OTHER ->
                        [called EXCEPT
                            !.all_rates = dict_update(@, a.rates),
                            !.errors = @ + 1])

\* RatesUpdater.run_update(source): answers is what each client does when
\* asked, cache_ok whether save_cache can write RATES_FILE_PATH.
\* add_history_record rewrites HISTORY_FILE_PATH once per recorded pair,
\* save_cache rewrites RATES_FILE_PATH.  file and rates are the portfolios
\* file and the rates file after the run; fetched is all_rates.
run_update(file, rates, source, answers, cache_ok) ==
    IF source # "" /\ source \notin ClientNames
    THEN [outcome |-> "ValueError", file |-> file, rates |-> rates,
          fetched |-> NoWallets, updated_count |-> 0, errors |-> 0,
          calls |-> <<>>, saveCalled |-> FALSE]
    ELSE LET f == fetch_all(sources_to_update(source), answers, NoFetch)
             saved == cache_ok /\ RATES_FILE_PATH = rates_file
         IN  [outcome |-> IF cache_ok THEN "ok" ELSE "OSError",
              file  |-> IF HISTORY_FILE_PATH = portfolios_file
                           /\ f.recorded # {}
                        THEN (0 :> f.all_rates)
                        ELSE file,
              rates |-> IF saved THEN save_cache(rates, f.all_rates)
                        ELSE rates,
              fetched |-> f.all_rates, updated_count |-> f.updated_count,
              errors |-> f.errors, calls |-> f.calls, saveCalled |-> TRUE]

---------------------------------------------------------------------------
(* core/models.py: User; core/usecases.py: UserStorage, UserUseCase.  The  *)
(* users file maps a username to the stored user_id and hashed password.   *)

\* len(password) of the passwords the model uses
len(password) ==
    CASE password = "" -> 0
      [] password = "abc" -> 3
      [] password = "abcd" -> 4
      [] password = "wxyz" -> 4
      [] OTHER -> 4

\* username.strip() of the usernames the model uses
strip(username) == IF username = " " THEN "" ELSE username

\* User._hash_password: sha256 of password + salt, taken as injective; the
\* salt of secrets.token_hex is one fixed value
hash_password(password, salt) == <<password, salt>>

\* User(user_id, username, password, ...) as save_users stores it
StoredUser(user_id, password) ==
    [user_id |-> user_id,
     salt |-> "salt",
     hashed_password |-> hash_password(password, "salt")]

\* the names class User defines (methods and properties)
UserAttrs ==
    {"_hash_password", "get_user_info", "change_password", "verify_password",
     "user_id", "username", "salt", "hashed_password", "registration_date"}

\* UserStorage.load_users: {} for a missing or empty file; for the first
\* stored user line 35 calls User.from_saved_data, which class User does
\* not define, and the AttributeError leaves load_users (its try block ends
\* at line 31)
load_users(users) ==
    IF DOMAIN users = {} THEN [exc |-> "none", users |-> users]
    ELSE IF "from_saved_data" \in UserAttrs
    THEN [exc |-> "none", users |-> users]
    ELSE [exc |-> "AttributeError", users |-> NoWallets]

\* max([...], default=0) over a set of ids
RECURSIVE MaxOf(_)
MaxOf(ids) ==
    IF ids = {} THEN 0
    ELSE LET i == CHOOSE x \in ids : TRUE
             m == MaxOf(ids \ {i})
         IN  IF i > m THEN i ELSE m



\* user_id = max([user.user_id for user in users.values()], default=0) + 1
next_user_id(users) ==
    MaxOf({users[n].user_id : n \in DOMAIN users}) + 1

\* UserUseCase.register_user.  users and file are data/users.json and
\* data/portfolios.json after the call; portfolio is the Portfolio object
\* the call constructs and hands to save_portfolio.
register_user(users, file, username, password) ==
    LET fail(kind) ==
            [outcome |-> kind, user_id |-> 0, users |-> users,
             portfolio |-> NoWallets, saveCalled |-> FALSE, file |-> file]
    IN  IF username = "" \/ strip(username) = ""
        THEN fail("EmptyUsername")
        ELSE IF len(password) < 4
        THEN fail("ShortPassword")
        ELSE IF load_users(users).exc # "none"
        THEN fail(load_users(users).exc)
        ELSE IF username \in DOMAIN load_users(users).users
        THEN fail("UsernameTaken")
        ELSE
        LET loaded  == load_users(users).users
            user_id == next_user_id(loaded)
        IN  [outcome |-> "ok", user_id |-> user_id,
             users |-> (username :> StoredUser(user_id, password)) @@ loaded,
             portfolio |-> NewPortfolio, saveCalled |-> TRUE,
             file |-> save_portfolio(file, user_id, NewPortfolio)]

---------------------------------------------------------------------------
(* parser_service/scheduler.py: Scheduler                                  *)

\* _run_update without its try: what run_update raises leaves it
_run_update_raises(outcome) == outcome

\* Scheduler._run_update: how the call ends when run_update ended with
\* outcome; the except clause logs whatever run_update raised
_run_update(outcome) == "ok"

---------------------------------------------------------------------------
(* cli/interface.py: CLIInterface.  current_username None is written "".   *)

\* User.verify_password
verify_password(user, password) ==
    IF len(password) < 4 THEN FALSE
    ELSE user.hashed_password = hash_password(password, user.salt)

\* UserUseCase.login_user
login_user(users, username, password) ==
    LET ld == load_users(users)
    IN  IF ld.exc # "none" THEN ld.exc
        ELSE IF username \notin DOMAIN ld.users THEN "UserNotFound"
        ELSE IF ~verify_password(ld.users[username], password)
        THEN "WrongPassword"
        ELSE "ok"

\* a login handler that stores the username whatever login_user answers
_handle_login_stores(current_username, users, username, password) ==
    [outcome |-> login_user(users, username, password),
     current_username |-> username]

\* CLIInterface._handle_login: the outcome of login_user, whose exceptions
\* the handler prints, and current_username after the command
_handle_login(current_username, users, username, password) ==
    LET outcome == login_user(users, username, password)
    IN  [outcome |-> outcome,
         current_username |-> IF outcome = "ok" THEN username
                              ELSE current_username]

\* the attributes UserUseCase.__init__ sets
UserUseCaseAttrs == {"user_storage", "portfolio_storage"}

\* CLIInterface._get_current_user_id; user_id 0 is None
_get_current_user_id(current_username, users) ==
    IF current_username = "" THEN [exc |-> "none", user_id |-> 0]
    ELSE IF "db_manager" \notin UserUseCaseAttrs
    THEN [exc |-> "AttributeError", user_id |-> 0]
    ELSE LET ld == load_users(users)
         IN  IF ld.exc # "none" THEN [exc |-> ld.exc, user_id |-> 0]
             ELSE IF current_username \in DOMAIN ld.users
             THEN [exc |-> "none",
                   user_id |-> ld.users[current_username].user_id]
             ELSE [exc |-> "none", user_id |-> 0]

\* what _handle_buy, _handle_sell (validate) and _handle_show_portfolio
\* (not validate) do before they call the use case: outcome "ok" with the
\* user id to call it for, or what the command ends with
before_use_case(current_username, users, validate, currency) ==
    IF current_username = ""
    THEN [outcome |-> "Please login first", user_id |-> 0]
    ELSE IF validate /\ ~is_valid_currency(currency)
    THEN [outcome |-> "Unsupported currency", user_id |-> 0]
    ELSE LET id == _get_current_user_id(current_username, users)
         IN  IF id.exc # "none" THEN [outcome |-> id.exc, user_id |-> 0]
             ELSE IF id.user_id = 0
             THEN [outcome |-> "Failed to get user information",
                   user_id |-> 0]
             ELSE [outcome |-> "ok", user_id |-> id.user_id]

---------------------------------------------------------------------------
(* parser_service/storage.py: StorageManager.save_cache and save_history,  *)
(* step by step.  A file is its text as json.dump writes it: the entries   *)
(* written so far, and whether the text has been written to its end.       *)

\* a path, and the path with '.tmp' appended
Path(name) == <<name>>

\* a temporary path that is the path itself
temp_path_is_path(path) == path

\* temp_path = self.config.<...>_FILE_PATH + '.tmp'
temp_path(path) == Append(path, ".tmp")

\* the paths StorageManager reads and writes
DiskPaths ==
    {Path(RATES_FILE_PATH), <<RATES_FILE_PATH, ".tmp">>,
     Path(HISTORY_FILE_PATH), <<HISTORY_FILE_PATH, ".tmp">>}

\* no file at a path; a file just opened for writing; a complete file
Absent == [exists |-> FALSE, entries |-> <<>>, closed |-> FALSE]

Opened == [exists |-> TRUE, entries |-> <<>>, closed |-> FALSE]

Complete(entries) == [exists |-> TRUE, entries |-> entries, closed |-> TRUE]

\* the order in which the members of the rates file are written
KeyOrder ==
    <<<<"EUR", "USD">>, cache_key(<<"BTC", "USD">>),
      cache_key(<<"USD", "EUR">>)>>

\* json.dump of a rates file
encode(rates) ==
    LET IsKey(k) == k \in DOMAIN rates
        keys == SelectSeq(KeyOrder, IsKey)
    IN  Complete([i \in 1..Len(keys) |-> <<keys[i], rates[keys[i]]>>])

\* json.load of a complete rates file
decode(content) ==
    LET n == Len(content.entries)
    IN  [k \in {content.entries[i][1] : i \in 1..n} |->
            content.entries[CHOOSE i \in 1..n :
                                content.entries[i][1] = k][2]]

\* StorageManager.load_history: [] when the file is missing or is not a
\* complete JSON text
load_history(files) ==
    LET f == files[Path(HISTORY_FILE_PATH)]
    IN  IF f.exists /\ f.closed THEN f.entries ELSE <<>>

\* no file yet, no save under way
NoDisk ==
    [files |-> [p \in DiskPaths |-> Absent], pc |-> "idle",
     path |-> Path(RATES_FILE_PATH), new |-> Absent, prev |-> Absent,
     exc |-> "none", failedAt |-> "none"]

---------------------------------------------------------------------------
(* The state machine                                                       *)

\* no data/users.json
NoUsers == [n \in {} |-> 0]

\* Scheduler.__init__ and start_scheduler: is_running is False, the thread
\* that is to run run_scheduler is started and has executed nothing of it,
\* stop_scheduler has not been called, no scheduled update has run; failed
\* tells whether the latest scheduled run_update raised
NoSched ==
    [is_running |-> FALSE, pc |-> "start", stopped |-> FALSE, runs |-> 0,
     failed |-> FALSE, failures |-> 0]

\* CLIInterface.__init__: current_username is None, written "".  logged_in
\* and failed tell whether a login of the session has succeeded, has failed
NoSession == [current_username |-> "", logged_in |-> FALSE, failed |-> FALSE]

OthersInit ==
    /\ usersFile = NoUsers
    /\ sched = NoSched
    /\ session = NoSession
    /\ disk = NoDisk

Users == {1}

\* currency codes passed to buy and sell: registered ones and one that
\* CURRENCY_REGISTRY does not hold
Codes == {"USD", "EUR", "BTC", "ETH", "XXX"}

\* currency codes passed to get-rate: in either case, and the empty string
RateCodes == {"", "USD", "EUR", "BTC", "ETH", "XXX", "eur"}

Amounts == {Num(i) : i \in -1 .. MaxAmount} \cup {NaN}

\* data/portfolios.json as a working save would have written it: the user
\* is absent or holds non-negative balances
Balances == {Num(i) : i \in 0 .. MaxBalance}

StoredShapes == {{"USD", "BTC"}, {"USD", "ETH"}}

PortfolioFiles(B) ==
    {NoWallets} \cup {(1 :> e) : e \in UNION {[S -> B] : S \in StoredShapes}}

\* data/rates.json as update_rate writes it: positive rates
InitPairs == {<<"BTC", "USD">>}

InitRatePairs ==
    {<<"BTC", "USD">>, <<"EUR", "USD">>, <<"EUR", "BTC">>, <<"USD", "BTC">>}

RateFiles(pairs, R) == UNION {[P -> R] : P \in SUBSET pairs}

NoCall ==
    [op |-> "none", user |-> 0, code |-> "", to |-> "", amount |-> Zero,
     file0 |-> NoWallets, rates0 |-> NoWallets,
     outcome |-> "none", loaded |-> FALSE, w0 |-> NoWallets, w1 |-> NoWallets,
     resolved |-> FALSE, rate |-> Zero, reads |-> {}, writes |-> {},
     halves |-> 0, saveCalled |-> FALSE, msg |-> "", total |-> Zero,
     fetched |-> NoWallets,
     username |-> "", password |-> "", users0 |-> NoWallets,
     source |-> "", answers |-> NoWallets, calls |-> <<>>,
     updated_count |-> 0, errors |-> 0,
     reached |-> FALSE, current0 |-> ""]

Call(op, user, code, to, amount, file0, rates0, res) ==
    [op |-> op, user |-> user, code |-> code, to |-> to, amount |-> amount,
     file0 |-> file0, rates0 |-> rates0,
     outcome |-> res.outcome, loaded |-> res.loaded, w0 |-> res.w0,
     w1 |-> res.w1, resolved |-> res.resolved, rate |-> res.rate,
     reads |-> res.reads, writes |-> res.writes,
     halves |-> res.halves, saveCalled |-> res.saveCalled, msg |-> "",
     total |-> Zero, fetched |-> NoWallets,
     username |-> "", password |-> "", users0 |-> NoWallets,
     source |-> "", answers |-> NoWallets, calls |-> <<>>,
     updated_count |-> 0, errors |-> 0,
     reached |-> FALSE, current0 |-> ""]

\* RateUseCase.calculate_rate called on its own (the get-rate command)
RateResult(cr, file) ==
    Result(IF cr.ok THEN "ok" ELSE "RateUnavailable", FALSE, NoWallets,
           NoWallets, Called(cr), cr.rate, 0, FALSE, file)

\* RateUseCase.calculate_rate left by an exception, or returning
RateRaised(cr, file) ==
    Result(IF cr.exc # "none" THEN cr.exc
           ELSE IF cr.ok THEN "ok" ELSE "RateUnavailable",
           FALSE, NoWallets, NoWallets, Called(cr), cr.rate, 0, FALSE, file)

Init ==
    /\ OthersInit
    /\ portfoliosFile \in PortfolioFiles(Balances)
    /\ ratesFile \in RateFiles(InitPairs, {Num(2)})
    /\ last = NoCall

\* a call of PortfolioUseCase.buy_currency
Buy ==
    /\ UNCHANGED others
    /\ \E u \in Users, c \in Codes, a \in Amounts :
        \E res \in {buy_currency(portfoliosFile, ratesFile, u, c, a)} :
        /\ portfoliosFile' = res.file
        /\ ratesFile' = res.rates
        /\ last' = Call("buy", u, c, "USD", a, portfoliosFile, ratesFile, res)

\* a call of PortfolioUseCase.sell_currency
Sell ==
    /\ UNCHANGED others
    /\ \E u \in Users, c \in Codes, a \in Amounts :
        \E res \in {sell_currency(portfoliosFile, ratesFile, u, c, a)} :
        /\ portfoliosFile' = res.file
        /\ ratesFile' = res.rates
        /\ last' = Call("sell", u, c, "USD", a, portfoliosFile, ratesFile, res)

Next == Buy \/ Sell

\* buy and sell on files as the program's own writers leave them
Spec == Init /\ [][Next]_vars

\* buy and sell on files of any content: stored balances may be negative,
\* cached rates zero or negative
InitAnyFiles ==
    /\ OthersInit
    /\ portfoliosFile \in PortfolioFiles(Balances \cup {Num(-1)})
    /\ ratesFile \in RateFiles(InitPairs, {Num(-1), Num(0), Num(2)})
    /\ last = NoCall

SpecAnyFiles == InitAnyFiles /\ [][Next]_vars

\* a call of RateUseCase.calculate_rate
GetRate ==
    /\ UNCHANGED others
    /\ Cardinality(DOMAIN ratesFile) < MaxCached
    /\ \E f \in RateCodes, t \in RateCodes :
        \E cr \in {calculate_rate(ratesFile, f, t)} :
        /\ ratesFile' = cr.rates
        /\ last' = Call("rate", 0, f, t, Zero, portfoliosFile, ratesFile,
                        RateResult(cr, portfoliosFile))
        /\ UNCHANGED portfoliosFile

InitRate ==
    /\ OthersInit
    /\ portfoliosFile = NoWallets
    /\ ratesFile \in RateFiles(InitRatePairs, {Num(2)})
    /\ last = NoCall

NextRate == GetRate

\* the resolver on its own
SpecRate == InitRate /\ [][NextRate]_vars

\* values passed to the Wallet constructor, the balance setter, deposit and
\* withdraw
WalletValues ==
    {NegInf, Num(-1), Zero, <<1, 2>>, One, Num(MaxAmount), PosInf, NaN}

\* the wallet of the latest Wallet call, if that call left one
HasWallet ==
    /\ last.op \in {"new", "assign", "deposit", "withdraw"}
    /\ "USD" \in DOMAIN last.w1

\* a call on one Wallet object: res is what the call did to its balance
WalletCall(op, amount, w0, w1, res) ==
    [NoCall EXCEPT !.op = op, !.code = "USD", !.amount = amount,
                   !.file0 = portfoliosFile, !.rates0 = ratesFile,
                   !.w0 = w0, !.w1 = w1,
                   !.outcome = IF res.exc = "none" THEN "ok" ELSE res.exc,
                   !.msg = res.msg]

\* Wallet("USD", v): _balance = 0.0, then the setter; a ValueError of the
\* setter leaves no Wallet object
WalletNew ==
    /\ UNCHANGED others
    /\ \E v \in WalletValues :
        \E res \in {balance_setter(Zero, v)} :
        /\ last' = WalletCall("new", v, NoWallets,
                       IF res.exc = "none" THEN ("USD" :> res.balance)
                       ELSE NoWallets, res)
        /\ UNCHANGED <<portfoliosFile, ratesFile>>

\* wallet.balance = v
WalletAssign ==
    /\ UNCHANGED others
    /\ HasWallet
    /\ \E v \in WalletValues :
        \E res \in {balance_setter(last.w1["USD"], v)} :
        /\ last' = WalletCall("assign", v, last.w1,
                              ("USD" :> res.balance), res)
        /\ UNCHANGED <<portfoliosFile, ratesFile>>

\* wallet.deposit(v)
WalletDeposit ==
    /\ UNCHANGED others
    /\ HasWallet
    /\ Le(last.w1["USD"], Num(MaxBalance))
    /\ \E v \in WalletValues :
        \E res \in {deposit(last.w1["USD"], v)} :
        /\ last' = WalletCall("deposit", v, last.w1,
                              ("USD" :> res.balance), res)
        /\ UNCHANGED <<portfoliosFile, ratesFile>>

\* wallet.withdraw(v)
WalletWithdraw ==
    /\ UNCHANGED others
    /\ HasWallet
    /\ \E v \in WalletValues :
        \E res \in {withdraw(last.w1["USD"], v)} :
        /\ last' = WalletCall("withdraw", v, last.w1,
                              ("USD" :> res.balance), res)
        /\ UNCHANGED <<portfoliosFile, ratesFile>>

\* data/portfolios.json of any content: negative, NaN and infinite stored
\* balances (json.load reads NaN and Infinity)
InitWallet ==
    /\ OthersInit
    /\ portfoliosFile \in
           PortfolioFiles({Num(MaxBalance), Num(-1), NaN, PosInf})
    /\ ratesFile = NoWallets
    /\ last = NoCall

NextWallet ==
    \/ WalletNew
    \/ WalletAssign
    \/ WalletDeposit
    \/ WalletWithdraw
    \/ Buy
    \/ Sell

\* Wallet objects under every call that reaches them: construction,
\* assignment, deposit and withdraw on one wallet, and buy and sell with the
\* load of the stored portfolio
SpecWallet == InitWallet /\ [][NextWallet]_vars

\* the resolver on a rates file of any content: cached rates may be zero or
\* negative
InitRateAnyFiles ==
    /\ OthersInit
    /\ portfoliosFile = NoWallets
    /\ ratesFile \in RateFiles(InitRatePairs, {Num(-1), Num(0), Num(2)})
    /\ last = NoCall

SpecRateAnyFiles == InitRateAnyFiles /\ [][NextRate]_vars

\* a call of RateUseCase.calculate_rate while data/rates.json cannot be
\* opened for writing
GetRateUnwritable ==
    /\ UNCHANGED others
    /\ Cardinality(DOMAIN ratesFile) < MaxCached
    /\ \E f \in RateCodes, t \in RateCodes :
        \E cr \in {calculate_rate_unwritable(ratesFile, f, t)} :
        /\ ratesFile' = cr.rates
        /\ last' = Call("rate", 0, f, t, Zero, portfoliosFile, ratesFile,
                        RateRaised(cr, portfoliosFile))
        /\ UNCHANGED portfoliosFile

NextRateIO == GetRate \/ GetRateUnwritable

\* the resolver with a rates file that may refuse the write
SpecRateIO == InitRate /\ [][NextRateIO]_vars

\* two processes that each make one buy or sell call for the same user
Procs == {1, 2}

RaceCodes == {"USD", "BTC"}

RaceAmounts == {One, Num(MaxAmount)}

\* a process that has not called yet
Idle == [pc |-> "idle", call |-> NoCall, savesBefore |-> 0]

\* a process past the load, the rate resolution and the wallet updates of
\* its call: at "save" when the call goes on to save_portfolio, at "done"
\* when it has returned.  savesBefore counts the save_portfolio calls made
\* before its load.
Begun(op, u, c, a, res) ==
    [pc |-> IF res.saveCalled THEN "save" ELSE "done",
     call |-> Call(op, u, c, "USD", a, portfoliosFile, ratesFile, res),
     savesBefore |-> Len(last.saves)]

\* buy_currency up to its save_portfolio call: load_portfolio, the
\* resolver with its write-back, the wallet updates in memory
RaceBuy(p) ==
    /\ UNCHANGED others
    /\ last.procs[p].pc = "idle"
    /\ \E u \in Users, c \in RaceCodes, a \in RaceAmounts :
        \E res \in {buy_currency(portfoliosFile, ratesFile, u, c, a)} :
        /\ ratesFile' = res.rates
        /\ last' = [last EXCEPT !.procs[p] = Begun("buy", u, c, a, res)]
        /\ UNCHANGED portfoliosFile

\* sell_currency up to its save_portfolio call
RaceSell(p) ==
    /\ UNCHANGED others
    /\ last.procs[p].pc = "idle"
    /\ \E u \in Users, c \in RaceCodes, a \in RaceAmounts :
        \E res \in {sell_currency(portfoliosFile, ratesFile, u, c, a)} :
        /\ ratesFile' = res.rates
        /\ last' = [last EXCEPT !.procs[p] = Begun("sell", u, c, a, res)]
        /\ UNCHANGED portfoliosFile

\* save_portfolio(portfolio) of the call in progress, on the file as it is
\* now, and the return of the call
RaceSave(p) ==
    /\ UNCHANGED others
    /\ last.procs[p].pc = "save"
    /\ portfoliosFile' = save_portfolio(portfoliosFile,
                                        last.procs[p].call.user,
                                        last.procs[p].call.w1)
    /\ last' = [last EXCEPT !.procs[p].pc = "done",
                            !.saves = Append(@, p)]
    /\ UNCHANGED ratesFile

InitRace ==
    /\ OthersInit
    /\ portfoliosFile \in PortfolioFiles(Balances)
    /\ ratesFile \in RateFiles(InitPairs, {Num(2)})
    /\ last = [procs |-> [p \in Procs |-> Idle], saves |-> <<>>]

NextRace == \E p \in Procs : RaceBuy(p) \/ RaceSell(p) \/ RaceSave(p)

\* two concurrent buy/sell calls on the same data files, with no lock
\* between a call's load and its save
SpecRace == InitRace /\ [][NextRace]_vars

\* base currencies passed to the valuation: registered ones in either
\* case, one that CURRENCY_REGISTRY does not hold, and the empty string
Bases == {"USD", "EUR", "BTC", "XXX", "", "eur"}

\* a call of PortfolioUseCase.get_portfolio_info (the show-portfolio
\* command)
Valuate ==
    /\ UNCHANGED others
    /\ \E u \in Users, b \in Bases :
        \E res \in {get_portfolio_info(portfoliosFile, ratesFile, u, b)} :
        /\ portfoliosFile' = res.file
        /\ ratesFile' = res.val.rates
        /\ last' = [NoCall EXCEPT !.op = "value", !.user = u, !.to = b,
                       !.file0 = portfoliosFile, !.rates0 = ratesFile,
                       !.outcome = res.outcome, !.loaded = TRUE,
                       !.w0 = res.wallets, !.w1 = res.wallets,
                       !.resolved = res.val.reads # {} \/ res.val.writes # {},
                       !.reads = res.val.reads, !.writes = res.val.writes,
                       !.total = res.val.total]

InitValue ==
    /\ OthersInit
    /\ portfoliosFile \in PortfolioFiles(Balances)
    /\ ratesFile \in RateFiles(InitRatePairs, {Num(2)})
    /\ last = NoCall

NextValue == Valuate

\* the valuation on files as the program's own writers leave them
SpecValue == InitValue /\ [][NextValue]_vars

\* the pairs the two sources deliver (BTC_USD from CoinGecko, USD_EUR from
\* ExchangeRate-API) and the rate they deliver
FetchPairs == {<<"BTC", "USD">>, <<"USD", "EUR">>}

FetchedRates == {Num(3)}

\* the source argument: None, the two clients, and a name that is none
Sources == {"", "coingecko", "exchangerate", "bogus"}

SourceResults == {"ok", "ApiRequestError", "OSError"}

\* the pair a client delivers
SourcePair(name) ==
    IF name = "coingecko" THEN <<"BTC", "USD">> ELSE <<"USD", "EUR">>

\* what the clients do in one run
Answers ==
    {[n \in ClientNames |->
         [result |-> results[n], rates |-> (SourcePair(n) :> r)]] :
     results \in [ClientNames -> SourceResults], r \in FetchedRates}

\* the record of a run of run_update
UpdateCall(source, answers, file0, rates0, res) ==
    [NoCall EXCEPT !.op = "update", !.source = source, !.answers = answers,
        !.file0 = file0, !.rates0 = rates0,
        !.outcome = res.outcome, !.fetched = res.fetched,
        !.updated_count = res.updated_count, !.errors = res.errors,
        !.calls = res.calls, !.saveCalled = res.saveCalled,
        !.writes = IF res.outcome = "ok" THEN DOMAIN res.fetched ELSE {}]

\* a run of RatesUpdater.run_update (the update-rates command and the
\* scheduler's timer)
RunUpdate ==
    /\ UNCHANGED others
    /\ \E source \in Sources, answers \in Answers, cache_ok \in BOOLEAN :
        \E res \in {run_update(portfoliosFile, ratesFile, source, answers,
                               cache_ok)} :
        /\ portfoliosFile' = res.file
        /\ ratesFile' = res.rates
        /\ last' = UpdateCall(source, answers, portfoliosFile, ratesFile,
                              res)

InitJob ==
    /\ OthersInit
    /\ portfoliosFile \in PortfolioFiles({Num(MaxBalance)})
    /\ ratesFile = NoWallets
    /\ last = NoCall

\* the rates file holds fewer than MaxCached entries
CacheSmall == Cardinality(DOMAIN ratesFile) < MaxCached

JobBuy == CacheSmall /\ Buy

JobSell == CacheSmall /\ Sell

JobValuate == CacheSmall /\ Valuate

NextJob ==
    \/ RunUpdate
    \/ JobBuy
    \/ JobSell
    \/ JobValuate

\* the rate-fetch job interleaved with buy, sell and the valuation
SpecJob == InitJob /\ [][NextJob]_vars

\* the Portfolio object of the latest Portfolio call
HasPortfolio ==
    /\ last.op \in {"portfolio", "load", "add_currency", "get_wallet"}
    /\ last.outcome = "ok"

\* a call that makes or acts on one Portfolio object: w0 and w1 are its
\* _wallets before and after
PortfolioCall(op, user, code, w0, w1, outcome, found) ==
    [NoCall EXCEPT !.op = op, !.user = user, !.code = code,
                   !.file0 = portfoliosFile, !.rates0 = ratesFile,
                   !.w0 = w0, !.w1 = w1, !.outcome = outcome,
                   !.loaded = (op = "load"), !.resolved = found]

\* Portfolio(user_id), as register_user constructs it
PortfolioNew ==
    /\ UNCHANGED others
    /\ \E u \in Users :
        /\ last' = PortfolioCall("portfolio", u, "", NoWallets, NewPortfolio,
                                 "ok", FALSE)
        /\ UNCHANGED <<portfoliosFile, ratesFile>>

\* PortfolioStorage.load_portfolio(user_id)
PortfolioLoad ==
    /\ UNCHANGED others
    /\ \E u \in Users :
        \E ld \in {load_portfolio(portfoliosFile, u)} :
        /\ last' = PortfolioCall("load", u, "", NoWallets,
                       IF ld.exc = "none" THEN ld.wallets ELSE NoWallets,
                       IF ld.exc = "none" THEN "ok" ELSE ld.exc, FALSE)
        /\ UNCHANGED <<portfoliosFile, ratesFile>>

\* portfolio.add_currency(code)
AddCurrency ==
    /\ UNCHANGED others
    /\ HasPortfolio
    /\ \E c \in Codes :
        /\ last' = PortfolioCall("add_currency", last.user, c, last.w1,
                                 add_currency(last.w1, c), "ok", FALSE)
        /\ UNCHANGED <<portfoliosFile, ratesFile>>

\* portfolio.get_wallet(code); resolved records whether a Wallet was
\* returned
GetWallet ==
    /\ UNCHANGED others
    /\ HasPortfolio
    /\ \E c \in Codes :
        \E gw \in {get_wallet(last.w1, c)} :
        /\ last' = PortfolioCall("get_wallet", last.user, c, last.w1,
                                 gw.wallets, "ok", gw.found)
        /\ UNCHANGED <<portfoliosFile, ratesFile>>

NextPortfolio ==
    \/ PortfolioNew
    \/ PortfolioLoad
    \/ AddCurrency
    \/ GetWallet

\* Portfolio objects: constructed or loaded, then add_currency and
\* get_wallet
SpecPortfolio == Init /\ [][NextPortfolio]_vars

\* usernames and passwords passed to register and login: empty, blank and
\* three names; empty, too short and two passwords of four characters
Usernames == {"", " ", "alice", "bob", "carol"}

Passwords == {"", "abc", "abcd", "wxyz"}

\* a call of UserUseCase.register_user
Register ==
    \E n \in Usernames, pw \in Passwords :
        \E res \in {register_user(usersFile, portfoliosFile, n, pw)} :
        /\ usersFile' = res.users
        /\ portfoliosFile' = res.file
        /\ last' = [NoCall EXCEPT !.op = "register", !.user = res.user_id,
                       !.username = n, !.password = pw,
                       !.users0 = usersFile, !.file0 = portfoliosFile,
                       !.rates0 = ratesFile, !.outcome = res.outcome,
                       !.w1 = res.portfolio,
                       !.saveCalled = res.saveCalled]
        /\ UNCHANGED <<ratesFile, sched, session, disk>>

\* no user yet, or one registered earlier
InitUsers ==
    /\ portfoliosFile = NoWallets
    /\ ratesFile = NoWallets
    /\ last = NoCall
    /\ usersFile \in {NoUsers, ("carol" :> StoredUser(1, "abcd"))}
    /\ sched = NoSched
    /\ session = NoSession
    /\ disk = NoDisk

NextUsers == Register

\* registrations, one after another
SpecUsers == InitUsers /\ [][NextUsers]_vars

\* the entries another writer of the rates file stores, and the rate it
\* stores
PutPairs ==
    {<<"EUR", "USD">>, <<"BTC", "USD">>, <<"BTC", "EUR">>, <<"EUR", "BTC">>}

PutRates == {Num(3)}

\* a call of RateStorage.update_rate by a writer other than the resolver's
\* write-back
PutRate ==
    /\ UNCHANGED others
    /\ Cardinality(DOMAIN ratesFile) < MaxCached
    /\ \E p \in PutPairs, r \in PutRates :
        /\ ratesFile' = update_rate(ratesFile, p[1], p[2], r)
        /\ last' = [NoCall EXCEPT !.op = "put", !.code = p[1], !.to = p[2],
                       !.rate = r, !.outcome = "ok",
                       !.file0 = portfoliosFile, !.rates0 = ratesFile,
                       !.writes = {pair_key(p[1], p[2])}]
        /\ UNCHANGED portfoliosFile

NextRatePut == GetRate \/ PutRate

\* the resolver beside another writer of the rates file
SpecRatePut == InitRate /\ [][NextRatePut]_vars

\* run_scheduler, line 51: self.is_running = True
SchedStart ==
    /\ sched.pc = "start"
    /\ sched' = [sched EXCEPT !.is_running = TRUE, !.pc = "while"]
    /\ UNCHANGED <<portfoliosFile, ratesFile, last, usersFile, session, disk>>

\* run_scheduler, line 55: while self.is_running
SchedWhile ==
    /\ sched.pc = "while"
    /\ sched' = [sched EXCEPT
                    !.pc = IF sched.is_running THEN "pending" ELSE "finally"]
    /\ UNCHANGED <<portfoliosFile, ratesFile, last, usersFile, session, disk>>

\* run_scheduler, lines 56-57: run_pending with no job due, and the sleep
SchedSleep ==
    /\ sched.pc = "pending"
    /\ sched' = [sched EXCEPT !.pc = "while"]
    /\ UNCHANGED <<portfoliosFile, ratesFile, last, usersFile, session, disk>>

\* run_scheduler, lines 56-57: run_pending with the job due, which calls
\* _run_update, and the sleep; an exception that leaves _run_update is
\* caught at line 60 and ends the loop
SchedUpdate ==
    /\ sched.pc = "pending"
    /\ sched.runs < MaxRuns
    /\ \E answers \in Answers, cache_ok \in BOOLEAN :
        \E res \in {run_update(portfoliosFile, ratesFile, "", answers,
                               cache_ok)} :
        /\ portfoliosFile' = res.file
        /\ ratesFile' = res.rates
        /\ last' = UpdateCall("", answers, portfoliosFile, ratesFile, res)
        /\ sched' = [sched EXCEPT
                        !.runs = @ + 1,
                        !.failed = res.outcome # "ok",
                        !.failures = IF res.outcome # "ok" THEN @ + 1 ELSE @,
                        !.pc = IF _run_update(res.outcome) = "ok"
                               THEN "while" ELSE "finally"]
    /\ UNCHANGED <<usersFile, session, disk>>

\* run_scheduler, line 63: self.is_running = False
SchedFinally ==
    /\ sched.pc = "finally"
    /\ sched' = [sched EXCEPT !.is_running = FALSE, !.pc = "done"]
    /\ UNCHANGED <<portfoliosFile, ratesFile, last, usersFile, session, disk>>

\* Scheduler.stop_scheduler, called by another thread
StopScheduler ==
    /\ ~sched.stopped
    /\ sched' = [sched EXCEPT !.is_running = FALSE, !.stopped = TRUE]
    /\ UNCHANGED <<portfoliosFile, ratesFile, last, usersFile, session, disk>>

\* the steps of the thread start_scheduler starts
SchedThread ==
    \/ SchedStart
    \/ SchedWhile
    \/ SchedSleep
    \/ SchedUpdate
    \/ SchedFinally

InitSched ==
    /\ portfoliosFile = NoWallets
    /\ ratesFile = NoWallets
    /\ last = NoCall
    /\ usersFile = NoUsers
    /\ sched = NoSched
    /\ session = NoSession
    /\ disk = NoDisk

NextSched ==
    \/ SchedStart
    \/ SchedWhile
    \/ SchedSleep
    \/ SchedUpdate
    \/ SchedFinally
    \/ StopScheduler

\* the scheduler thread beside a thread that calls stop_scheduler
SpecSched == InitSched /\ [][NextSched]_vars

\* the scheduler thread is scheduled again and again, and while it runs
\* the job comes due again and again
SpecSchedFair ==
    /\ SpecSched
    /\ WF_vars(SchedThread)
    /\ SF_vars(SchedUpdate)

\* a command that ended before its use case was called
Refused(op, code, to, amount, outcome) ==
    [NoCall EXCEPT !.op = op, !.code = code, !.to = to, !.amount = amount,
        !.outcome = outcome, !.file0 = portfoliosFile,
        !.rates0 = ratesFile, !.users0 = usersFile,
        !.current0 = session.current_username]

\* the login command
CliLogin ==
    /\ \E n \in Usernames, pw \in Passwords :
        \E res \in {_handle_login(session.current_username, usersFile,
                                  n, pw)} :
        /\ session' = [current_username |-> res.current_username,
                       logged_in |-> session.logged_in \/ res.outcome = "ok",
                       failed |-> session.failed \/ res.outcome # "ok"]
        /\ last' = [NoCall EXCEPT !.op = "login", !.username = n,
                       !.password = pw, !.outcome = res.outcome,
                       !.file0 = portfoliosFile, !.rates0 = ratesFile,
                       !.users0 = usersFile,
                       !.current0 = session.current_username]
    /\ UNCHANGED <<portfoliosFile, ratesFile, usersFile, sched, disk>>

\* the buy command
CliBuy ==
    /\ \E c \in Codes, a \in Amounts :
        \E g \in {before_use_case(session.current_username, usersFile,
                                  TRUE, c)} :
        IF g.outcome = "ok"
        THEN \E res \in {buy_currency(portfoliosFile, ratesFile, g.user_id,
                                      upper(c), a)} :
             /\ portfoliosFile' = res.file
             /\ ratesFile' = res.rates
             /\ last' = [Call("buy", g.user_id, c, "USD", a,
                              portfoliosFile, ratesFile, res)
                            EXCEPT !.reached = TRUE,
                                   !.current0 = session.current_username]
        ELSE /\ last' = Refused("buy", c, "USD", a, g.outcome)
             /\ UNCHANGED <<portfoliosFile, ratesFile>>
    /\ UNCHANGED <<usersFile, sched, session, disk>>

\* the sell command
CliSell ==
    /\ \E c \in Codes, a \in Amounts :
        \E g \in {before_use_case(session.current_username, usersFile,
                                  TRUE, c)} :
        IF g.outcome = "ok"
        THEN \E res \in {sell_currency(portfoliosFile, ratesFile, g.user_id,
                                       upper(c), a)} :
             /\ portfoliosFile' = res.file
             /\ ratesFile' = res.rates
             /\ last' = [Call("sell", g.user_id, c, "USD", a,
                              portfoliosFile, ratesFile, res)
                            EXCEPT !.reached = TRUE,
                                   !.current0 = session.current_username]
        ELSE /\ last' = Refused("sell", c, "USD", a, g.outcome)
             /\ UNCHANGED <<portfoliosFile, ratesFile>>
    /\ UNCHANGED <<usersFile, sched, session, disk>>

\* the show-portfolio command
CliShowPortfolio ==
    /\ \E b \in Bases :
        \E g \in {before_use_case(session.current_username, usersFile,
                                  FALSE, b)} :
        IF g.outcome = "ok"
        THEN \E res \in {get_portfolio_info(portfoliosFile, ratesFile,
                                            g.user_id, b)} :
             /\ portfoliosFile' = res.file
             /\ ratesFile' = res.val.rates
             /\ last' = [NoCall EXCEPT !.op = "value", !.user = g.user_id,
                            !.to = b, !.file0 = portfoliosFile,
                            !.rates0 = ratesFile, !.outcome = res.outcome,
                            !.reads = res.val.reads,
                            !.writes = res.val.writes,
                            !.total = res.val.total, !.reached = TRUE,
                            !.current0 = session.current_username]
        ELSE /\ last' = Refused("value", "", b, Zero, g.outcome)
             /\ UNCHANGED <<portfoliosFile, ratesFile>>
    /\ UNCHANGED <<usersFile, sched, session, disk>>

\* a new session on an empty data directory or beside a user registered
\* in an earlier one
InitCli ==
    /\ portfoliosFile = NoWallets
    /\ ratesFile = NoWallets
    /\ last = NoCall
    /\ usersFile \in {NoUsers, ("carol" :> StoredUser(1, "abcd"))}
    /\ sched = NoSched
    /\ session = NoSession
    /\ disk = NoDisk

NextCli ==
    \/ Register
    \/ CliLogin
    \/ CliBuy
    \/ CliSell
    \/ CliShowPortfolio

\* one CLI session: register, login, buy, sell and show-portfolio commands
SpecCli == InitCli /\ [][NextCli]_vars

\* no save is under way
NoSave == disk.pc \in {"idle", "returned", "raised"}

\* the first statement of a save of content new to path, os.makedirs: it
\* raises, outside the try, only where the directory cannot be made, and
\* then the directory holds no file
BeginSave(path, new) ==
    \/ disk' = [disk EXCEPT !.pc = "open", !.path = path, !.new = new,
                   !.prev = disk.files[path], !.exc = "none",
                   !.failedAt = "none"]
    \/ /\ \A p \in DiskPaths : ~disk.files[p].exists
       /\ disk' = [disk EXCEPT !.pc = "raised", !.path = path, !.new = new,
                      !.prev = disk.files[path], !.exc = "OSError",
                      !.failedAt = "makedirs"]

\* StorageManager.save_cache(rates) begins: run_update hands it the pairs
\* of the run
SaveCacheBegin ==
    /\ NoSave
    /\ \E fetched \in RateFiles(FetchPairs, FetchedRates) :
        BeginSave(Path(RATES_FILE_PATH),
                  encode(save_cache(ratesFile, fetched)))
    /\ UNCHANGED <<portfoliosFile, ratesFile, last, usersFile, sched,
                   session>>

\* StorageManager.add_history_record begins: load_history, append, and
\* save_history of the longer list
SaveHistoryBegin ==
    /\ NoSave
    /\ Len(load_history(disk.files)) < MaxHistory
    /\ \E p \in FetchPairs, r \in FetchedRates :
        BeginSave(Path(HISTORY_FILE_PATH),
                  Complete(Append(load_history(disk.files), <<p, r>>)))
    /\ UNCHANGED <<portfoliosFile, ratesFile, last, usersFile, sched,
                   session>>

\* a step of the save raises an exception, which the except clause takes
Fails(step) ==
    disk' = [disk EXCEPT !.pc = "except", !.exc = "OSError",
                         !.failedAt = step]

\* open(temp_path, 'w'): the file is created, or emptied if a save that
\* was killed left it there; or open raises
OpenTemp ==
    /\ disk.pc = "open"
    /\ \/ disk' = [disk EXCEPT !.files[temp_path(disk.path)] = Opened,
                              !.pc = "dump"]
       \/ Fails("open")
    /\ UNCHANGED <<portfoliosFile, ratesFile, last, usersFile, sched,
                   session>>

\* json.dump writes the next entry, or, after the last one, the end of the
\* text, and the with block closes the file; or the write raises
Dump ==
    /\ disk.pc = "dump"
    /\ LET t == temp_path(disk.path)
           n == Len(disk.files[t].entries)
       IN  \/ /\ n < Len(disk.new.entries)
              /\ disk' = [disk EXCEPT !.files[t].entries =
                                         Append(@, disk.new.entries[n + 1])]
           \/ /\ n = Len(disk.new.entries)
              /\ disk' = [disk EXCEPT !.files[t].closed = TRUE,
                                      !.pc = "replace"]
           \/ Fails("dump")
    /\ UNCHANGED <<portfoliosFile, ratesFile, last, usersFile, sched,
                   session>>

\* os.replace(temp_path, path), one step of the file system; or it raises.
\* ratesFile is the rates file as json.load reads it.
Replace ==
    /\ disk.pc = "replace"
    /\ LET t == temp_path(disk.path)
           moved == [[disk.files EXCEPT ![t] = Absent]
                        EXCEPT ![disk.path] = disk.files[t]]
       IN  \/ /\ disk' = [disk EXCEPT !.files = moved, !.pc = "returned"]
              /\ ratesFile' = IF disk.path = Path(RATES_FILE_PATH)
                                 /\ moved[disk.path].closed
                              THEN decode(moved[disk.path])
                              ELSE ratesFile
           \/ Fails("replace") /\ UNCHANGED ratesFile
    /\ UNCHANGED <<portfoliosFile, last, usersFile, sched, session>>

\* the except clause: os.remove(temp_path) if the file exists, raise e
Cleanup ==
    /\ disk.pc = "except"
    /\ disk' = [disk EXCEPT
                   !.files[temp_path(disk.path)] = Absent,
                   !.pc = "raised"]
    /\ UNCHANGED <<portfoliosFile, ratesFile, last, usersFile, sched,
                   session>>

\* the data directory before a save: missing, or with a rates file the
\* resolver wrote, and perhaps temporary files of a save that was killed
InitDisk ==
    /\ portfoliosFile = NoWallets
    /\ last = NoCall
    /\ usersFile = NoUsers
    /\ sched = NoSched
    /\ session = NoSession
    /\ ratesFile \in {NoWallets, (<<"EUR", "USD">> :> Num(2))}
    /\ \E stale \in {Absent, Opened} :
        disk = [NoDisk EXCEPT
                   !.files = [p \in DiskPaths |->
                       IF p = Path(RATES_FILE_PATH) /\ ratesFile # NoWallets
                       THEN encode(ratesFile)
                       ELSE IF p = temp_path(Path(RATES_FILE_PATH))
                               /\ ratesFile # NoWallets
                       THEN stale
                       ELSE Absent]]

NextDisk ==
    \/ SaveCacheBegin
    \/ SaveHistoryBegin
    \/ OpenTemp
    \/ Dump
    \/ Replace
    \/ Cleanup

\* saves of the rates cache and of the history, one after another, each of
\* them step by step
SpecDisk == InitDisk /\ [][NextDisk]_vars

---------------------------------------------------------------------------
(* Properties of buy and sell                                              *)

\* the balance of a wallet, 0.0 for a wallet the portfolio does not hold
Bal(wallets, code) == IF code \in DOMAIN wallets THEN wallets[code] ELSE Zero

IsTrade == last.op \in {"buy", "sell"}

\* what resolve(code, USD) returns on the rates file the call started with
ResolvedToUsd == calculate_rate(last.rates0, last.code, "USD").rate

\* the portfolio of a buy after both halves, from the balances it loaded
BoughtWallets ==
    [c \in DOMAIN last.w0 \cup {last.code} |->
        CASE c = last.code -> Add(Bal(last.w0, c), last.amount)
          [] c = "USD" -> Sub(Bal(last.w0, c), Mul(last.amount, last.rate))
          [] OTHER -> last.w0[c]]

\* the portfolio of a sell after the withdrawal from the code wallet and
\* then the deposit into the USD wallet
SoldWallets ==
    LET afterWithdraw == [last.w0 EXCEPT ![last.code] = Sub(@, last.amount)]
    IN  [afterWithdraw EXCEPT
            !["USD"] = Add(@, Mul(last.amount, last.rate))]

\* C1: buy(code, amount) with code other than USD and amount > 0 prices the
\* purchase at r = resolve(code, USD); if the USD balance is below amount * r
\* it fails with InsufficientFunds and changes no existing balance; otherwise
\* the code wallet (created at 0 if absent) grows by exactly amount, the USD
\* wallet shrinks by exactly amount * r, and no other wallet changes.
C1_BuyTransfers ==
    (last.op = "buy" /\ last.code # "USD" /\ Gt(last.amount, Zero)) =>
        LET cost == Mul(last.amount, ResolvedToUsd)
        IN  /\ last.rate = ResolvedToUsd
            /\ IF Lt(Bal(last.w0, "USD"), cost)
               THEN /\ last.outcome = "InsufficientFunds"
                    /\ \A c \in DOMAIN last.w0 : last.w1[c] = last.w0[c]
                    /\ \A c \in DOMAIN last.w1 : last.w1[c] = Bal(last.w0, c)
                    /\ portfoliosFile = last.file0
               ELSE /\ last.outcome = "ok"
                    /\ DOMAIN last.w1 = DOMAIN last.w0 \cup {last.code}
                    /\ last.w1[last.code] =
                           Add(Bal(last.w0, last.code), last.amount)
                    /\ last.w1["USD"] = Sub(last.w0["USD"], cost)
                    /\ \A c \in DOMAIN last.w0 \ {last.code, "USD"} :
                           last.w1[c] = last.w0[c]

\* a purchase of ETH at the table rate 0.0003 that went through and
\* created the wallet
C1_Witness ==
    /\ last.op = "buy" /\ last.code = "ETH" /\ last.outcome = "ok"
    /\ "ETH" \notin DOMAIN last.w0
    /\ Gt(last.w1["USD"], Zero)

\* C2 as stated: a successful sell leaves the code wallet at its balance
\* minus amount and the USD wallet at its balance plus amount * r, for every
\* code, USD included.
C2_SellTransfersEveryCode ==
    (last.op = "sell" /\ Gt(last.amount, Zero)) =>
        IF last.code \notin DOMAIN last.w0
        THEN last.outcome = "WalletNotFound"
        ELSE IF Lt(last.w0[last.code], last.amount)
        THEN last.outcome = "InsufficientFunds" /\ last.w1 = last.w0
        ELSE /\ last.outcome = "ok"
             /\ last.rate = ResolvedToUsd
             /\ last.w1[last.code] = Sub(last.w0[last.code], last.amount)
             /\ last.w1["USD"] =
                    Add(Bal(last.w0, "USD"), Mul(last.amount, last.rate))
             /\ \A c \in DOMAIN last.w0 \ {last.code, "USD"} :
                    last.w1[c] = last.w0[c]

\* C2: sell(code, amount) with amount > 0 fails with WalletNotFound if the
\* portfolio has no wallet for code and with InsufficientFunds if that
\* wallet holds less than amount, changing nothing; otherwise it withdraws
\* amount from the code wallet and then deposits amount * r, r =
\* resolve(code, USD), into the USD wallet, leaving every other wallet
\* unchanged. For a code other than USD the code wallet ends amount lower
\* and the USD wallet amount * r higher; for code = USD both steps act on
\* the one wallet at rate 1.0 and its balance ends where it started.
C2_SellTransfers ==
    (last.op = "sell" /\ Gt(last.amount, Zero)) =>
        IF last.code \notin DOMAIN last.w0
        THEN last.outcome = "WalletNotFound" /\ portfoliosFile = last.file0
        ELSE IF Lt(last.w0[last.code], last.amount)
        THEN /\ last.outcome = "InsufficientFunds"
             /\ last.w1 = last.w0
             /\ portfoliosFile = last.file0
        ELSE /\ last.outcome = "ok"
             /\ last.rate = ResolvedToUsd
             /\ last.w1 = SoldWallets
             /\ last.code # "USD" =>
                    /\ last.w1[last.code] =
                           Sub(last.w0[last.code], last.amount)
                    /\ last.w1["USD"] =
                           Add(last.w0["USD"], Mul(last.amount, last.rate))
             /\ last.code = "USD" =>
                    /\ last.rate = One
                    /\ last.w1 = last.w0

\* a sale of USD that went through on a non-zero balance
C2_Witness ==
    /\ last.op = "sell" /\ last.code = "USD" /\ last.outcome = "ok"
    /\ last.amount = Num(1)
    /\ last.w1["USD"] = Num(2)

\* the portfolio after both halves of the call's update
FullUpdate == IF last.op = "buy" THEN BoughtWallets ELSE SoldWallets

\* C3: the paired wallet update of a buy or a sell is all or nothing: the
\* portfolios file after the call is the file before it or that file with
\* both halves applied, save_portfolio is called only after both halves
\* went through, and a call that fails, the failure of the second half
\* included, leaves the file as it was.
C3_PairedUpdateAllOrNothing ==
    IsTrade =>
        /\ \/ portfoliosFile = last.file0
           \/ /\ last.outcome = "ok"
              /\ portfoliosFile = (last.user :> FullUpdate) @@ last.file0
        /\ last.saveCalled => (last.outcome = "ok" /\ last.w1 = FullUpdate)
        /\ last.outcome # "ok" =>
               (~last.saveCalled /\ portfoliosFile = last.file0)

\* a buy whose deposit went through and whose withdrawal from the USD
\* wallet raised
C3_Witness ==
    /\ last.op = "buy" /\ last.halves = 1 /\ last.outcome = "ValueError"
    /\ last.w1[last.code] = Add(Bal(last.w0, last.code), last.amount)
    /\ last.w1["USD"] = last.w0["USD"]

\* C4 as stated: after a buy or a sell that reports success, the portfolio
\* loaded again for that user has the balances the call computed.
C4_SuccessIsPersisted ==
    (IsTrade /\ last.outcome = "ok") =>
        load_portfolio(portfoliosFile, last.user).wallets = last.w1

\* a deposit of 1 USD reported as done with save_portfolio called, and the
\* portfolios file as it was before the call
C4_Witness ==
    /\ last.op = "buy" /\ last.code = "USD" /\ last.outcome = "ok"
    /\ last.saveCalled
    /\ last.w1["USD"] = Add(last.w0["USD"], Num(1))
    /\ portfoliosFile = last.file0
    /\ load_portfolio(portfoliosFile, last.user).wallets = last.w0

\* C5 as stated: a buy or a sell ends with a result, success or one of the
\* failures it reports as (False, message); no exception leaves it.
C5_NoExceptionEscapes ==
    IsTrade =>
        last.outcome \in {"ok", "InvalidAmount", "WalletNotFound",
                          "InsufficientFunds"}

\* a deposit of NaN USD: the balance setter raises ValueError and
\* buy_currency does not catch it
C5_Witness ==
    /\ last.op = "buy" /\ last.code = "USD" /\ IsNaN(last.amount)
    /\ last.outcome = "ValueError"

\* C6 as stated: a successful buy(code, a) followed at once by sell(code, a)
\* for the same user at the same rate succeeds and returns the code wallet
\* and the USD wallet to their balances before the buy.
C6_BuyThenSellRestores ==
    [][(/\ last.op = "buy" /\ last.outcome = "ok"
        /\ Gt(last.amount, Zero)
        /\ last'.op = "sell"
        /\ last'.user = last.user
        /\ last'.code = last.code
        /\ last'.amount = last.amount
        /\ last.code # "USD" => last'.rate = last.rate)
       => /\ last'.outcome = "ok"
          /\ last'.w1["USD"] = Bal(last.w0, "USD")
          /\ last'.w1[last.code] = Bal(last.w0, last.code)]_vars

\* C7: a buy or a sell with amount <= 0 is rejected before anything else:
\* it fails with InvalidAmount, loads no portfolio, resolves no rate, and
\* leaves the portfolios file and the rates file as they were.
C7_NonPositiveAmountRejected ==
    (IsTrade /\ Le(last.amount, Zero)) =>
        /\ last.outcome = "InvalidAmount"
        /\ ~last.loaded
        /\ ~last.resolved
        /\ last.reads = {} /\ last.writes = {}
        /\ portfoliosFile = last.file0
        /\ ratesFile = last.rates0

\* a sale of amount 0 of a currency the stored portfolio holds
C7_Witness ==
    /\ last.op = "sell" /\ last.amount = Zero
    /\ last.outcome = "InvalidAmount"
    /\ last.user \in DOMAIN last.file0
    /\ last.code \in DOMAIN last.file0[last.user]

\* C8 as stated: a buy or a sell of a code that CURRENCY_REGISTRY does not
\* hold fails with CurrencyNotFound, creates no wallet, resolves no rate
\* and changes no file.
C8_UnregisteredCodeRejected ==
    (IsTrade /\ Gt(last.amount, Zero) /\ ~is_valid_currency(last.code)) =>
        /\ last.outcome = "CurrencyNotFound"
        /\ last.code \notin DOMAIN last.w1
        /\ ~last.resolved
        /\ portfoliosFile = last.file0
        /\ ratesFile = last.rates0

\* a purchase of the unregistered code XXX that went through: the wallet
\* was created and credited, and XXX_USD was resolved and cached
C8_Witness ==
    /\ last.op = "buy" /\ last.code = "XXX" /\ last.outcome = "ok"
    /\ ~is_valid_currency("XXX")
    /\ last.w1["XXX"] = last.amount
    /\ last.resolved
    /\ <<"XXX", "USD">> \in DOMAIN ratesFile \ DOMAIN last.rates0

\* C9: buy("USD", amount) with amount > 0 is a deposit: it succeeds, the
\* USD wallet grows by exactly amount, no other wallet changes, no rate is
\* resolved and the rates file is neither read nor written.
C9_UsdBuyIsDeposit ==
    (last.op = "buy" /\ last.code = "USD" /\ Gt(last.amount, Zero)) =>
        /\ last.outcome = "ok"
        /\ DOMAIN last.w1 = DOMAIN last.w0
        /\ last.w1["USD"] = Add(last.w0["USD"], last.amount)
        /\ \A c \in DOMAIN last.w0 \ {"USD"} : last.w1[c] = last.w0[c]
        /\ ~last.resolved
        /\ last.reads = {} /\ last.writes = {}
        /\ ratesFile = last.rates0

\* a deposit of 2 USD on top of a stored balance, with a rate in the cache
C9_Witness ==
    /\ last.op = "buy" /\ last.code = "USD" /\ last.outcome = "ok"
    /\ last.amount = Num(2)
    /\ last.w1["USD"] = Num(4)
    /\ DOMAIN last.rates0 # {}

---------------------------------------------------------------------------
(* Properties of the rate resolver                                         *)

\* C10: resolve(X, X) for a non-empty code X, compared after upper-casing,
\* succeeds with the rate 1.0 and neither reads nor writes the rates file.
C10_SameCurrencyIsOne ==
    (last.op = "rate" /\ last.code # "" /\ last.to # ""
        /\ upper(last.code) = upper(last.to)) =>
        /\ last.outcome = "ok"
        /\ last.rate = One
        /\ last.reads = {} /\ last.writes = {}
        /\ ratesFile = last.rates0

\* BTC resolved against itself while the rates file holds other pairs
C10_Witness ==
    /\ last.op = "rate" /\ last.code = "BTC" /\ last.to = "BTC"
    /\ last.outcome = "ok"
    /\ DOMAIN ratesFile # {}

\* a get-rate call on two distinct non-empty codes; F and T are the codes
\* after upper()
IsResolve ==
    /\ last.op = "rate" /\ last.code # "" /\ last.to # ""
    /\ upper(last.code) # upper(last.to)

F == upper(last.code)

T == upper(last.to)

DirectCached == <<F, T>> \in DOMAIN last.rates0

\* C11: when the rates file holds an entry for the ordered pair (from, to),
\* from other than to, resolve(from, to) succeeds with exactly that rate,
\* whatever the cached USD legs and the static table say.
C11_DirectLookupWins ==
    (IsResolve /\ DirectCached) =>
        /\ last.outcome = "ok"
        /\ last.rate = last.rates0[<<F, T>>]

\* EUR to BTC answered from the cached pair at 2 while the cached BTC leg
\* and the static EUR constant would give 1.18 / 2
C11_Witness ==
    /\ IsResolve /\ F = "EUR" /\ T = "BTC"
    /\ DirectCached
    /\ <<"BTC", "USD">> \in DOMAIN last.rates0
    /\ last.rate = Num(2)
    /\ last.rate # Div(fixed_rates("EUR"), last.rates0[<<"BTC", "USD">>])

\* the static table of calculate_rate, as the source text gives it
StaticTable ==
    [c \in {"USD", "EUR", "BTC", "ETH"} |->
        CASE c = "USD" -> One
          [] c = "EUR" -> <<59, 50>>
          [] c = "BTC" -> <<1, 40000>>
          [] c = "ETH" -> <<3, 10000>>]

LegCached(X) == X # "USD" /\ <<X, "USD">> \in DOMAIN last.rates0

\* leg(X): the cached (X, USD) rate if present, the static constant of X
\* otherwise
Leg(X) == IF LegCached(X) THEN last.rates0[<<X, "USD">>] ELSE StaticTable[X]

HasLeg(X) == LegCached(X) \/ X \in DOMAIN StaticTable

\* C12: when no direct (A, B) entry is cached, resolve(A, B) is
\* leg(A) / leg(B), where leg(X) is the cached (X, USD) rate if present and
\* the static constant of X otherwise; and when both legs come from the
\* same tier it is resolve(A, USD) / resolve(B, USD), each resolved on the
\* same rates file.
C12_CrossRateIsLegQuotient ==
    (IsResolve /\ ~DirectCached /\ HasLeg(F) /\ HasLeg(T)) =>
        /\ last.outcome = "ok"
        /\ Mul(last.rate, Leg(T)) = Leg(F)
        /\ LegCached(F) = LegCached(T) =>
               Mul(last.rate, calculate_rate(last.rates0, T, "USD").rate)
                   = calculate_rate(last.rates0, F, "USD").rate

\* EUR to BTC with no cached pair, the static EUR constant 1.18 over the
\* cached BTC leg 2
C12_Witness ==
    /\ IsResolve /\ F = "EUR" /\ T = "BTC" /\ ~DirectCached
    /\ ~LegCached("EUR") /\ LegCached("BTC")
    /\ last.rates0[<<"BTC", "USD">>] = Num(2)
    /\ last.rate = <<59, 100>>

InverseCached(X) ==
    /\ X # "USD" /\ ~LegCached(X)
    /\ <<"USD", X>> \in DOMAIN last.rates0
    /\ last.rates0[<<"USD", X>>] # Zero

\* the leg of X with the inverse entry (USD, X) tried before the static
\* table
LegWithInverse(X) ==
    IF InverseCached(X)
    THEN LET q == last.rates0[<<"USD", X>>] IN <<q[2], q[1]>>
    ELSE Leg(X)

\* C13 as stated: in cross-rate resolution a leg whose (X, USD) entry is
\* missing while (USD, X) is cached at a non-zero rate q is taken as 1/q,
\* for the from-leg and for the to-leg, and not from the static table.
C13_InverseLegIsUsed ==
    (/\ IsResolve /\ ~DirectCached /\ HasLeg(F) /\ HasLeg(T)
     /\ InverseCached(F) \/ InverseCached(T)) =>
        /\ last.outcome = "ok"
        /\ Mul(last.rate, LegWithInverse(T)) = LegWithInverse(F)

\* BTC to EUR with (USD, BTC) cached at 2 and no (BTC, USD) entry: the rate
\* is the quotient of the two static constants
C13_Witness ==
    /\ IsResolve /\ F = "BTC" /\ T = "EUR" /\ ~DirectCached
    /\ InverseCached("BTC")
    /\ last.rates0[<<"USD", "BTC">>] = Num(2)
    /\ ~LegCached("EUR")
    /\ Mul(last.rate, StaticTable["EUR"]) = StaticTable["BTC"]
    /\ Mul(last.rate, StaticTable["EUR"]) # <<1, 2>>

\* C14: when resolve(from, to) succeeds by cross rate or static fallback,
\* the rates file afterwards holds the derived rate under (from, to), and no
\* other pair entry is created or changed: not (to, from), not (from, USD),
\* not (to, USD).
C14_WriteBackOnlyThePair ==
    (IsResolve /\ ~DirectCached /\ last.outcome = "ok") =>
        /\ DOMAIN ratesFile = DOMAIN last.rates0 \cup {<<F, T>>}
        /\ ratesFile[<<F, T>>] = last.rate
        /\ \A p \in DOMAIN last.rates0 : ratesFile[p] = last.rates0[p]
        /\ last.writes = {<<F, T>>}

\* EUR to BTC derived from the cached BTC leg: EUR_BTC is new in the file,
\* BTC_EUR and EUR_USD are still absent, BTC_USD is as it was
C14_Witness ==
    /\ IsResolve /\ F = "EUR" /\ T = "BTC" /\ ~DirectCached
    /\ last.outcome = "ok"
    /\ <<"EUR", "BTC">> \in DOMAIN ratesFile
    /\ <<"BTC", "EUR">> \notin DOMAIN ratesFile
    /\ <<"EUR", "USD">> \notin DOMAIN ratesFile
    /\ <<"BTC", "USD">> \in DOMAIN last.rates0
    /\ ratesFile[<<"BTC", "USD">>] = last.rates0[<<"BTC", "USD">>]

\* C15 as stated: resolve never returns ok with a rate that is 0 or
\* negative, whatever the rates file holds; a cached direct entry or leg of
\* 0 counts as unavailable.
C15_OkRateIsPositive ==
    (last.op = "rate" /\ last.outcome = "ok") => Gt(last.rate, Zero)

\* BTC to USD answered (True, 0) from the cached pair BTC_USD = 0
C15_Witness ==
    /\ IsResolve /\ F = "BTC" /\ T = "USD" /\ DirectCached
    /\ last.rates0[<<"BTC", "USD">>] = Zero
    /\ last.outcome = "ok"
    /\ last.rate = Zero

\* X is in no pair entry of the rates file the call started with
NotInCache(X) == \A p \in DOMAIN last.rates0 : p[1] # X /\ p[2] # X

\* C16 as stated: without a direct entry resolve(from, to) returns ok=false
\* when the to-leg is zero or the to currency has neither a cached leg nor a
\* constant in the static table; and a currency that is in no cached pair
\* and not in the static table never resolves successfully.
C16_UnknownCurrencyFails ==
    IsResolve =>
        /\ (/\ ~DirectCached
            /\ \/ (LegCached(T) /\ Leg(T) = Zero)
               \/ (~LegCached(T) /\ T \notin DOMAIN StaticTable))
           => last.outcome # "ok"
        /\ (\E X \in {F, T} : X \notin DOMAIN StaticTable /\ NotInCache(X))
           => last.outcome # "ok"

\* EUR to XXX on an empty rates file resolved at 1.18, XXX taken as 1.0
C16_Witness ==
    /\ IsResolve /\ F = "EUR" /\ T = "XXX"
    /\ last.rates0 = NoWallets
    /\ "XXX" \notin DOMAIN StaticTable
    /\ last.outcome = "ok"
    /\ last.rate = <<59, 50>>

\* C17 as stated: when the rate for (from, to) has been determined and
\* writing it to the rates file fails, resolve still returns (ok, rate).
C17_WriteFailureIsSwallowed ==
    (IsResolve /\ calculate_rate(last.rates0, last.code, last.to).ok) =>
        /\ last.outcome = "ok"
        /\ last.rate = calculate_rate(last.rates0, last.code, last.to).rate

\* EUR to BTC determined from the static table, the write refused, and the
\* call left by OSError
C17_Witness ==
    /\ IsResolve /\ F = "EUR" /\ T = "BTC"
    /\ last.rates0 = NoWallets
    /\ last.rate = <<47200, 1>>
    /\ last.outcome = "OSError"
    /\ ratesFile = last.rates0

\* C18: on an empty rates file, resolve(A, B) for every ordered pair of
\* distinct registered currencies (USD, EUR, BTC, ETH) succeeds with the
\* strictly positive rate static[A] / static[B].
C18_EmptyCacheUsesStaticTable ==
    (/\ IsResolve /\ last.rates0 = NoWallets
     /\ F \in CURRENCY_REGISTRY /\ T \in CURRENCY_REGISTRY) =>
        /\ last.outcome = "ok"
        /\ Mul(last.rate, StaticTable[T]) = StaticTable[F]
        /\ Gt(last.rate, Zero)
        /\ IsFinite(last.rate)

\* EUR to BTC on an empty rates file: 1.18 / 0.000025 = 47200
C18_Witness ==
    /\ IsResolve /\ last.code = "EUR" /\ last.to = "BTC"
    /\ last.rates0 = NoWallets
    /\ last.outcome = "ok"
    /\ last.rate = Num(47200)

---------------------------------------------------------------------------
(* Properties of Wallet                                                    *)

\* a balance the Wallet invariant allows
ValidBalance(b) == IsFinite(b) /\ Le(Zero, b)

\* a positive finite number
PositiveFinite(a) == IsFinite(a) /\ Gt(a, Zero)

\* the stored portfolio the latest buy or sell loaded holds a balance that
\* is negative, NaN or infinite
StoredBalanceInvalid ==
    \E c \in DOMAIN StoredWallets(last.file0, last.user) :
        ~ValidBalance(StoredWallets(last.file0, last.user)[c])

\* C19: every Wallet has a balance >= 0 that is neither NaN nor infinite
\* after any sequence of construction, assignment, deposit, withdraw, load
\* of a stored portfolio, buy and sell; assigning a negative, NaN or
\* infinite balance raises and leaves the balance as it was, and a stored
\* balance of that kind makes the load raise.
C19_BalanceNeverInvalid ==
    /\ \A c \in DOMAIN last.w1 : ValidBalance(last.w1[c])
    /\ \A c \in DOMAIN last.w0 : ValidBalance(last.w0[c])
    /\ (last.op \in {"new", "assign"} /\ ~ValidBalance(last.amount)) =>
           /\ last.outcome = "ValueError"
           /\ last.w1 = last.w0
    /\ (last.op \in {"new", "assign"} /\ ValidBalance(last.amount)) =>
           /\ last.outcome = "ok"
           /\ last.w1["USD"] = last.amount
    /\ (IsTrade /\ last.loaded /\ StoredBalanceInvalid) =>
           /\ last.outcome = "ValueError"
           /\ last.w1 = NoWallets

\* the assignment of -1 to a wallet holding 2, refused
C19_Witness ==
    /\ last.op = "assign" /\ last.amount = Num(-1)
    /\ last.w0["USD"] = Num(2)
    /\ last.outcome = "ValueError"
    /\ last.w1["USD"] = Num(2)

---------------------------------------------------------------------------
(* Properties of a deposit followed by a withdrawal                        *)

---------------------------------------------------------------------------
(* Properties of Portfolio                                                 *)

\* a portfolio holding exactly the three default wallets, each at 0.0
DefaultWallets == [c \in {"USD", "EUR", "BTC"} |-> Zero]

\* C22: every Portfolio, constructed at registration or loaded from
\* persistence (also for a user with no saved data), holds USD, EUR and BTC
\* wallets and one wallet per code: a loaded portfolio holds the default
\* codes and the stored codes, a stored code's one wallet carrying the
\* stored balance; a newly constructed portfolio, and one loaded for a user
\* with no saved data, is the three default wallets at balance 0.
C22_DefaultWallets ==
    LET stored == StoredWallets(last.file0, last.user)
    IN  /\ HasPortfolio => {"USD", "EUR", "BTC"} \subseteq DOMAIN last.w1
        /\ last.op = "portfolio" => last.w1 = DefaultWallets
        /\ last.op = "load" =>
               /\ last.outcome = "ok"
               /\ DOMAIN last.w1 = {"USD", "EUR", "BTC"} \cup DOMAIN stored
               /\ \A c \in DOMAIN stored : last.w1[c] = stored[c]
               /\ \A c \in DOMAIN last.w1 \ DOMAIN stored : last.w1[c] = Zero
               /\ stored = NoWallets => last.w1 = DefaultWallets

\* a load of stored USD 2 and ETH 1: four wallets, EUR and BTC at 0
C22_Witness ==
    /\ last.op = "load" /\ last.outcome = "ok"
    /\ last.file0 = (1 :> [c \in {"USD", "ETH"} |->
                              IF c = "USD" THEN Num(2) ELSE One])
    /\ DOMAIN last.w1 = {"USD", "EUR", "BTC", "ETH"}
    /\ last.w1["USD"] = Num(2) /\ last.w1["ETH"] = One
    /\ last.w1["EUR"] = Zero /\ last.w1["BTC"] = Zero

\* C23: add_currency(code) adds a wallet at balance 0 for code when the
\* portfolio holds none and otherwise changes nothing, so that a second
\* add_currency(code) changes nothing; no other wallet is touched.
\* get_wallet(code) returns a wallet exactly when the portfolio holds one
\* and leaves the wallets as they were.
C23_AddIdempotentGetPure ==
    /\ last.op = "add_currency" =>
           /\ IF last.code \in DOMAIN last.w0
              THEN last.w1 = last.w0
              ELSE /\ DOMAIN last.w1 = DOMAIN last.w0 \cup {last.code}
                   /\ last.w1[last.code] = Zero
                   /\ \A c \in DOMAIN last.w0 : last.w1[c] = last.w0[c]
           /\ add_currency(last.w1, last.code) = last.w1
    /\ last.op = "get_wallet" =>
           /\ last.w1 = last.w0
           /\ last.resolved = (last.code \in DOMAIN last.w0)

\* add_currency("USD") on a loaded portfolio whose USD wallet holds 2
C23_Witness ==
    /\ last.op = "add_currency" /\ last.code = "USD"
    /\ last.w0["USD"] = Num(2)
    /\ last.w1["USD"] = Num(2)

---------------------------------------------------------------------------
(* Properties of the valuation                                             *)

\* C24: a valuation whose base currency is not a registered code fails with
\* CurrencyNotFound and reports no total.
C24_UnregisteredBaseFails ==
    (last.op = "value" /\ ~is_valid_currency(last.to)) =>
        last.outcome = "CurrencyNotFound"

\* the valuation in XXX of stored USD 2, BTC 1 on an empty rates file:
\* reported as 2 * 1.0 + 1 * 0.000025 XXX
C24_Witness ==
    /\ last.op = "value" /\ last.to = "XXX"
    /\ last.rates0 = NoWallets
    /\ last.w1["USD"] = Num(2) /\ last.w1["BTC"] = One
    /\ last.outcome = "ok"
    /\ last.total = Add(Num(2), Norm(25, 1000000))

\* the sum over a set of wallets of balance * resolve(code, base), every
\* resolve made on the same rates file
RECURSIVE SumOfValues(_, _, _, _)
SumOfValues(codes, wallets, rates, base) ==
    IF codes = {} THEN Zero
    ELSE LET c == CHOOSE x \in codes : TRUE
         IN  Add(Mul(wallets[c], calculate_rate(rates, c, base).rate),
                 SumOfValues(codes \ {c}, wallets, rates, base))

\* C25: for a registered base currency the valuation reports a total, the
\* wallets it values are the stored portfolio as loaded, and the total is
\* the sum over all of them of balance * resolve(code, base), resolve taken
\* on the rates file the call started with; no valuation changes the
\* stored portfolios.
C25_TotalIsSumOfValues ==
    /\ (last.op = "value" /\ is_valid_currency(last.to)) =>
           /\ last.outcome = "ok"
           /\ last.w1 = load_portfolio(last.file0, last.user).wallets
           /\ last.total = SumOfValues(DOMAIN last.w1, last.w1, last.rates0,
                                       last.to)
    /\ last.op = "value" => portfoliosFile = last.file0

\* the valuation in USD of stored USD 1, BTC 2 with BTC_USD cached at 2:
\* 1 * 1.0 + 2 * 2 = 5
C25_Witness ==
    /\ last.op = "value" /\ last.to = "USD"
    /\ <<"BTC", "USD">> \in DOMAIN last.rates0
    /\ last.w1["USD"] = One /\ last.w1["BTC"] = Num(2)
    /\ last.w1["EUR"] = Zero
    /\ last.outcome = "ok"
    /\ last.total = Num(5)
    /\ portfoliosFile = last.file0

---------------------------------------------------------------------------
(* Properties of two concurrent calls                                      *)

\* both calls loaded before either saved, both succeeded and both have
\* saved
BothSavedAfterBothLoaded ==
    /\ Len(last.saves) = 2
    /\ \A p \in Procs :
          /\ last.procs[p].pc = "done"
          /\ last.procs[p].call.outcome = "ok"
          /\ last.procs[p].savesBefore = 0

\* C26: when two buy/sell calls for the same user both load before either
\* saves, the stored portfolio ends as the later save wrote it: the later
\* call's portfolio, the earlier call's update lost.
C26_LaterSaveWins ==
    BothSavedAfterBothLoaded =>
        StoredWallets(portfoliosFile, 1) = last.procs[last.saves[2]].call.w1

\* two buys of 1 USD on stored USD 2, BTC 0, both loaded before either
\* saved: each call ends with USD 3 in memory, and the stored portfolio
\* still holds USD 2 after both saves
C26_Witness ==
    /\ BothSavedAfterBothLoaded
    /\ \A p \in Procs :
          /\ last.procs[p].call.op = "buy"
          /\ last.procs[p].call.code = "USD"
          /\ last.procs[p].call.amount = One
          /\ last.procs[p].call.w0["USD"] = Num(2)
          /\ last.procs[p].call.w1["USD"] = Num(3)
    /\ portfoliosFile = last.procs[1].call.file0
    /\ portfoliosFile[1]["USD"] = Num(2)

---------------------------------------------------------------------------
(* Properties of the rate-fetch job                                        *)

\* C27: after a run of the fetch job that fetched and stored a rate for the
\* ordered pair (A, B), the resolver's direct lookup of (A, B) in the rates
\* file returns that rate.
C27_FetchedRateIsLookedUp ==
    last.op = "update" =>
        \A p \in DOMAIN last.fetched :
            get_rate(ratesFile, p[1], p[2]) =
                [found |-> TRUE, rate |-> last.fetched[p]]

\* a run that fetched BTC_USD = 3: the file holds it under "pairs", the
\* direct lookup of (BTC, USD) finds nothing and the resolver answers with
\* the static 0.000025
C27_Witness ==
    /\ last.op = "update" /\ last.outcome = "ok"
    /\ <<"BTC", "USD">> \in DOMAIN last.fetched
    /\ ratesFile[cache_key(<<"BTC", "USD">>)] = Num(3)
    /\ ~get_rate(ratesFile, "BTC", "USD").found
    /\ calculate_rate(ratesFile, "BTC", "USD").rate = Norm(25, 1000000)

\* C28: whichever of the fetch job and the resolver's write-back writes the
\* rates file, an entry for a pair the call did not write is still in the
\* file afterwards, with the rate it had.
C28_OtherPairsSurvive ==
    \A k \in DOMAIN last.rates0 :
        PairOf(k) \notin last.writes =>
            /\ k \in DOMAIN ratesFile
            /\ ratesFile[k] = last.rates0[k]

\* a run of the fetch job that fetched BTC_USD only, on a file in which
\* the resolver had cached EUR_USD: no entry for (EUR, USD) is left
C28_Witness ==
    /\ last.op = "update"
    /\ DOMAIN last.fetched = {<<"BTC", "USD">>}
    /\ <<"EUR", "USD">> \in DOMAIN last.rates0
    /\ <<"EUR", "USD">> \notin DOMAIN ratesFile
    /\ cache_key(<<"EUR", "USD">>) \notin DOMAIN ratesFile

\* C29: a run of the fetch job leaves the portfolios file as it was, and so
\* does a valuation; in every interleaving of fetch runs with buy, sell and
\* valuation a call after which the portfolios file differs is a buy or a
\* sell.
C29_JobLeavesPortfolios ==
    /\ last.op \in {"update", "value"} => portfoliosFile = last.file0
    /\ (last.op # "none" /\ portfoliosFile # last.file0) =>
           last.op \in {"buy", "sell"}

\* a run that fetched both pairs, after the resolver had cached a rate for
\* a trade of user 1, whose stored portfolio is as before the run
C29_Witness ==
    /\ last.op = "update"
    /\ DOMAIN last.fetched = FetchPairs
    /\ <<"BTC", "USD">> \in DOMAIN last.rates0
    /\ ratesFile # last.rates0
    /\ 1 \in DOMAIN last.file0
    /\ portfoliosFile = last.file0

---------------------------------------------------------------------------
(* Properties of a failed buy or sell                                      *)

\* C30: a buy or sell that fails with InvalidAmount, WalletNotFound or
\* InsufficientFunds leaves the portfolios file and the rates file as they
\* were and writes no rate entry.
C30_FailedTradeWritesNothing ==
    (/\ IsTrade
     /\ last.outcome \in {"InvalidAmount", "WalletNotFound",
                           "InsufficientFunds"}) =>
        /\ portfoliosFile = last.file0
        /\ ratesFile = last.rates0
        /\ last.writes = {}

\* a buy of 1 BTC with no USD and no rates file: refused for lack of funds
\* after the resolver has cached BTC_USD = 0.000025
C30_Witness ==
    /\ last.op = "buy" /\ last.code = "BTC" /\ last.amount = One
    /\ last.w0["USD"] = Zero
    /\ last.rates0 = NoWallets
    /\ last.outcome = "InsufficientFunds"
    /\ ratesFile = (<<"BTC", "USD">> :> Norm(25, 1000000))

---------------------------------------------------------------------------
(* Properties of the registration                                          *)

\* the registration is refused: the username is empty or blank, the
\* password shorter than 4 characters, or the username already stored
RegistrationRefused ==
    \/ strip(last.username) = ""
    \/ len(last.password) < 4
    \/ last.username \in DOMAIN last.users0

\* C31: after any sequence of register_user calls no two stored users share
\* a user id (the store is keyed by username, one user per name); a
\* registration with a taken username, an empty or blank username or a
\* password shorter than 4 characters is refused with the failure of its
\* kind and leaves the users file as it was; every other registration
\* succeeds, stores the user under the id 1 + the largest stored id, leaves
\* every other stored user as it was, and constructs a Portfolio of the
\* default wallets for the new id which it hands to save_portfolio.
C31_RegistrationKeepsUsersUnique ==
    /\ \A n \in DOMAIN usersFile, m \in DOMAIN usersFile :
          usersFile[n].user_id = usersFile[m].user_id => n = m
    /\ last.op = "register" =>
          IF RegistrationRefused
          THEN /\ last.outcome \in {"EmptyUsername", "ShortPassword",
                                    "UsernameTaken"}
               /\ usersFile = last.users0
               /\ ~last.saveCalled
          ELSE /\ last.outcome = "ok"
               /\ \A m \in DOMAIN last.users0 :
                     /\ last.user > last.users0[m].user_id
                     /\ usersFile[m] = last.users0[m]
               /\ \/ last.user = 1
                  \/ \E m \in DOMAIN last.users0 :
                        last.user = last.users0[m].user_id + 1
               /\ DOMAIN usersFile = DOMAIN last.users0 \cup {last.username}
               /\ usersFile[last.username].user_id = last.user
               /\ last.w1 = [c \in {"USD", "EUR", "BTC"} |-> Zero]
               /\ last.saveCalled

\* the registration of bob after carol (id 1): the call is left by an
\* AttributeError and bob is not stored
C31_Witness ==
    /\ last.op = "register" /\ last.username = "bob"
    /\ last.password = "abcd"
    /\ DOMAIN last.users0 = {"carol"}
    /\ last.outcome = "AttributeError"
    /\ usersFile = last.users0

---------------------------------------------------------------------------
(* Properties of repeated resolves                                         *)

\* C32: once resolve(A, B), A other than B, has succeeded, every later
\* resolve(A, B) returns the same rate and leaves the cached rates as they
\* are, whatever is written to other entries in between, until the (A, B)
\* entry itself is written by another writer.  In steps: a successful
\* resolve leaves its rate in the (A, B) entry; a step leaves every entry it
\* does not write as it was; and a resolve that finds the (A, B) entry
\* returns its rate and changes no cached rate.
C32_ResolvedRateIsPinned ==
    [][/\ \A k \in DOMAIN ratesFile :
             k \notin last'.writes =>
                 k \in DOMAIN ratesFile' /\ ratesFile'[k] = ratesFile[k]
       /\ (/\ last'.op = "rate" /\ last'.outcome = "ok"
           /\ upper(last'.code) # upper(last'.to)) =>
              /\ <<upper(last'.code), upper(last'.to)>> \in DOMAIN ratesFile'
              /\ ratesFile'[<<upper(last'.code), upper(last'.to)>>]
                     = last'.rate
       /\ (/\ last'.op = "rate"
           /\ <<upper(last'.code), upper(last'.to)>> \in DOMAIN ratesFile) =>
              /\ last'.outcome = "ok"
              /\ last'.rate = ratesFile[<<upper(last'.code), upper(last'.to)>>]
              /\ ratesFile' = ratesFile
      ]_vars

\* resolve(EUR, BTC) on a file that holds EUR_BTC = 47200, the quotient of
\* the static constants an earlier resolve cached, and EUR_USD = 3 written
\* since: 47200 again, the file as it was
C32_Witness ==
    /\ last.op = "rate" /\ last.code = "EUR" /\ last.to = "BTC"
    /\ <<"EUR", "BTC">> \in DOMAIN last.rates0
    /\ last.rates0[<<"EUR", "BTC">>] = Num(47200)
    /\ <<"EUR", "USD">> \in DOMAIN last.rates0
    /\ last.rates0[<<"EUR", "USD">>] = Num(3)
    /\ last.outcome = "ok"
    /\ last.rate = Num(47200)
    /\ ratesFile = last.rates0

---------------------------------------------------------------------------
(* Properties of RatesUpdater.run_update                                   *)

\* the sources of the latest run that did not answer "ok"
FailedSources ==
    {n \in ClientNames :
        /\ last.source \in {"", n}
        /\ last.answers[n].result # "ok"}

\* C35: in run_update the sources are isolated: a source that fails, in its
\* fetch or while its rates are recorded, adds one entry to errors, and
\* every source to update is still fetched, in order, and save_cache is
\* still called; an unknown source name raises ValueError before any fetch
\* and leaves both files as they were.
C35_SourcesAreIsolated ==
    last.op = "update" =>
        IF last.source \in ClientNames \cup {""}
        THEN /\ last.calls = IF last.source = "" THEN clients
                             ELSE <<last.source>>
             /\ last.errors = Cardinality(FailedSources)
             /\ last.saveCalled
             /\ last.outcome # "ValueError"
        ELSE /\ last.outcome = "ValueError"
             /\ last.calls = <<>>
             /\ ~last.saveCalled
             /\ ratesFile = last.rates0
             /\ portfoliosFile = last.file0

\* a run over both sources in which coingecko's fetch raised and
\* exchangerate answered: both were asked, one error, USD_EUR is cached
C35_Witness ==
    /\ last.op = "update" /\ last.source = ""
    /\ last.answers["coingecko"].result = "ApiRequestError"
    /\ last.answers["exchangerate"].result = "ok"
    /\ last.calls = <<"coingecko", "exchangerate">>
    /\ last.errors = 1
    /\ last.outcome = "ok"
    /\ DOMAIN ratesFile = {cache_key(<<"USD", "EUR">>)}

\* a run with source "bogus" on a rates file the resolver had written
C35_WitnessUnknown ==
    /\ last.op = "update" /\ last.source = "bogus"
    /\ last.outcome = "ValueError"
    /\ last.rates0 # NoWallets
    /\ ratesFile = last.rates0

\* C36: after run_update returns, the rate cache holds exactly the pairs the
\* sources fetched in this run returned, entries cached earlier and not
\* fetched again are gone, and a run in which every source fails leaves an
\* empty set of pairs.
C36_CacheIsExactlyThisRun ==
    (last.op = "update" /\ last.outcome = "ok") =>
        /\ DOMAIN ratesFile = {cache_key(p) : p \in DOMAIN last.fetched}
        /\ \A p \in DOMAIN last.fetched :
               ratesFile[cache_key(p)] = last.fetched[p]
        /\ FailedSources = {last.calls[i] : i \in 1..Len(last.calls)} =>
               ratesFile = NoWallets

\* a run over both sources, both of which returned rates and then failed
\* to record them: two errors, no rate counted as updated, and both pairs
\* in the cache
C36_Witness ==
    /\ last.op = "update" /\ last.source = "" /\ last.outcome = "ok"
    /\ \A n \in ClientNames : last.answers[n].result = "OSError"
    /\ last.errors = 2
    /\ last.updated_count = 0
    /\ DOMAIN ratesFile = {cache_key(p) : p \in FetchPairs}

---------------------------------------------------------------------------
(* Properties of the scheduler                                             *)

\* C33: once stop_scheduler has been called, run_scheduler eventually
\* leaves its loop and is_running stays false, in every interleaving of the
\* two threads.
C33_StopEndsTheLoop ==
    sched.stopped ~> [](sched.pc = "done" /\ ~sched.is_running)

\* stop_scheduler has returned, and the thread, which had not executed
\* line 51 by then, is in its loop with is_running true
C33_Witness ==
    /\ sched.stopped
    /\ sched.is_running
    /\ sched.pc = "pending"

\* C34: a scheduled update that fails does not stop the scheduler: unless
\* stop has been requested the thread is in its loop after the failure,
\* and a further scheduled update is run or stop is requested.
C34_FailedUpdateKeepsRunning ==
    /\ []((sched.failed /\ ~sched.stopped) =>
             (sched.pc \in {"while", "pending"} /\ sched.is_running))
    /\ \A n \in 1..(MaxRuns - 1) :
          (sched.runs = n /\ sched.failed) ~>
              (sched.runs > n \/ sched.stopped)

\* the first scheduled update raised OSError, the second one has run
C34_Witness ==
    /\ sched.runs = 2
    /\ sched.failures = 1
    /\ ~sched.failed
    /\ ~sched.stopped
    /\ last.op = "update" /\ last.outcome = "ok"
    /\ last.rates0 = NoWallets
    /\ sched.pc = "while"

---------------------------------------------------------------------------
(* Properties of a CLI session                                             *)

\* C37: in a CLI session a buy, sell or show-portfolio command reaches its
\* use case only if an earlier login of the session succeeded, buy and
\* sell only for a registered currency code as well, and a failed login
\* leaves the session's current user as it was.
C37_UseCasesNeedLogin ==
    /\ (last.op \in {"buy", "sell", "value"} /\ last.reached) =>
           /\ session.logged_in
           /\ last.op \in {"buy", "sell"} => is_valid_currency(last.code)
    /\ (last.op = "login" /\ last.outcome # "ok") =>
           session.current_username = last.current0
    /\ ~session.logged_in => session.current_username = ""

\* a buy of a registered code after the session's login, of a stored
\* user, has failed: no current user, the command ends before its use case
C37_Witness ==
    /\ last.op = "buy" /\ is_valid_currency(last.code)
    /\ last.users0 # NoUsers
    /\ session.failed /\ ~session.logged_in
    /\ session.current_username = ""
    /\ last.outcome = "Please login first"
    /\ ~last.reached
    /\ portfoliosFile = last.file0 /\ ratesFile = last.rates0

---------------------------------------------------------------------------
(* Properties of StorageManager's saves                                    *)

\* C38: save_cache and save_history replace their file atomically: at
\* every step of a save the target file holds the complete previous
\* content or the complete new content, and when a step fails the call
\* ends with the previous content in place, the temporary file removed and
\* the error raised.
C38_SaveReplacesAtomically ==
    /\ disk.pc # "idle" =>
           /\ disk.files[disk.path] \in {disk.prev, disk.new}
           /\ disk.files[disk.path].exists => disk.files[disk.path].closed
    /\ disk.pc = "raised" =>
           /\ disk.files[disk.path] = disk.prev
           /\ ~disk.files[Append(disk.path, ".tmp")].exists
           /\ disk.exc = "OSError"
    /\ disk.pc = "returned" =>
           /\ disk.files[disk.path] = disk.new
           /\ ~disk.files[Append(disk.path, ".tmp")].exists

\* a save_cache of two pairs over a rates file the resolver wrote, of
\* which one entry was written to the temporary file when the write
\* failed: the call has raised, the rates file is as before, no temporary
\* file is left
C38_Witness ==
    /\ disk.pc = "raised" /\ disk.failedAt = "dump"
    /\ disk.path = Path(RATES_FILE_PATH)
    /\ Len(disk.new.entries) = 2
    /\ disk.prev = encode((<<"EUR", "USD">> :> Num(2)))
    /\ disk.files[disk.path] = disk.prev
    /\ ratesFile = (<<"EUR", "USD">> :> Num(2))
    /\ ~disk.files[Append(disk.path, ".tmp")].exists

====
